---- MODULE Spec2Model ----
(***************************************************************************)
(* A model of the AnotherWorld life-trajectory simulator.                  *)
(*                                                                         *)
(* Number representation.  Python floats are modelled in fixed point:      *)
(*   - every scalar that the code keeps in [0,1] (and every multiplier)    *)
(*     is an integer number of 1/10000 ("bp"), so 0.8 is 8000;             *)
(*   - income and wealth are integer numbers of 1/100 currency units,      *)
(*     so 2000 currency units are 200000.                                  *)
(* Divisions round toward minus infinity.                                  *)
(***************************************************************************)
EXTENDS Integers, Sequences, FiniteSets, TLC

VARIABLES
    era_obj,    \* which era-segmented object a behaviour of SpecEra exercises
    cm,         \* a ChinaCountryModel (models/country_china.py)
    cw,         \* a ChinaWorldState (models/world_china.py)
    de_in,      \* arguments of one DecisionEngine.get_available_actions call
    de_out,     \* whether the call has returned, and its return value
    era_year,   \* the years given to cm so far: the first and the last one
    runs,       \* the simulation runs of the process, a sequence of records
    mode,       \* how the runs are scheduled: "single", "sequential", "interleaved"
    rng         \* utils/rng.py: the process-wide generator states

vars == <<era_obj, cm, cw, de_in, de_out, era_year, runs, mode, rng>>

(***************************************************************************)
(* Bounds of the model                                                     *)
(***************************************************************************)
\* last calendar year an era-segmented object is advanced to
LastYear == 2024

\* earliest calendar year an era-segmented object is constructed in
FirstYear == 1945

(***************************************************************************)
(* Program constants                                                       *)
(***************************************************************************)

\* DecisionEngine.__init__: max_actions_per_year
max_actions_per_year == 2

(***************************************************************************)
(* Fixed-point helpers                                                     *)
(***************************************************************************)
Min(a, b) == IF a < b THEN a ELSE b

Max(a, b) == IF a > b THEN a ELSE b

\* Python's None where an object is expected
None == [is_none |-> TRUE]

\* product of two bp quantities (x * k for a multiplier k in bp)
Mul(x, k) == (x * k) \div 10000

\* x * k for a money amount x (1/100 units) and a multiplier k in bp, computed
\* in two parts so that the product stays inside the integers of the checker
MulMoney(x, k) == (x \div 10000) * k + ((x % 10000) * k) \div 10000

\* clamp (utils/helpers.py) with its default range, in bp
clamp(value) == Max(0, Min(10000, value))

(***************************************************************************)
(* utils/rng.py: the process-wide generator.  `random` and `numpy.random`  *)
(* are two deterministic generators; each is modelled by a linear          *)
(* congruential generator over 0..65536 whose state is advanced once per   *)
(* draw.  A draw's value is read from the advanced state.                  *)
(***************************************************************************)
RngNext(s) == (s * 75 + 74) % 65537

\* the generator state after n further draws
RECURSIVE RngNth(_, _)
RngNth(s, n) == IF n = 0 THEN s ELSE RngNth(RngNext(s), n - 1)

\* a standard normal deviate in 1/100, read from generator state s
StdNormal(s) == <<0, -100, 100, -50, 50, -150, 150, -25, 25>>[(s % 9) + 1]

\* RNG.random: a uniform deviate of [0,1) in bp, read from generator state s
random(s) == (s * 10000) \div 65537

\* RNG.uniform(low, high)
uniform(low, high, s) == low + Mul(high - low, random(s))

\* random.gauss(mu, sigma) / RNG.normal(mean, std), read from generator state s
gauss(mu, sigma, s) == mu + (sigma * StdNormal(s)) \div 100

\* RNG.set_seed: both generators restart from a state fixed by the seed
set_seed(seed) == [py |-> (seed * 131 + 7) % 65537, np |-> (seed * 257 + 11) % 65537]

\* apply_noise (utils/helpers.py) with the default noise_factor 0.15, for a bp
\* value; s is the numpy generator state the draw is read from
apply_noise(value, s) == Mul(value, gauss(10000, 1500, s))

\* apply_noise for a money amount
apply_noise_money(value, s) == MulMoney(value, gauss(10000, 1500, s))

(***************************************************************************)
(* models/world_base.py: BaseWorldState                                    *)
(***************************************************************************)
\* math.sin(years_passed / 10 * 2 * math.pi) * 0.8, in bp
SinCycle(years_passed) ==
    <<0, 4702, 7608, 7608, 4702, 0, -4702, -7608, -7608, -4702>>[(years_passed % 10) + 1]

\* BaseWorldState._initialize_kondratiev_cycle: the phase, in bp
kondratiev_phase_of(year, base_year) == (((year - base_year) % 60) * 10000) \div 60

\* BaseWorldState.__init__; the economic fields start from the class defaults
BaseWorldState(year, base_year) ==
    [year |-> year, base_year |-> base_year,
     kondratiev_phase |-> kondratiev_phase_of(year, base_year),
     economic_cycle |-> 0, tech_level |-> 5000, inequality |-> 5000,
     social_mobility |-> 5000]

\* BaseWorldState.update(base_year); base_year = 0 stands for a call without
\* the argument (both are falsy).  Four random.gauss draws are read starting
\* after generator state py.  The result is the updated object.
BaseWorldState_update(w, base_year, py) ==
    LET by == IF base_year # 0 THEN base_year ELSE w.base_year
        year == w.year + 1
        cycle == SinCycle(year - by) + gauss(0, 1000, RngNth(py, 1))
        tech == clamp(w.tech_level + gauss(100, 50, RngNth(py, 2)))
        inequality_growth == Mul(tech, 10)
        ineq == clamp(w.inequality + gauss(inequality_growth, 100, RngNth(py, 3)))
        mobility_change == gauss(0, 200, RngNth(py, 4))
        mobility_penalty == Mul(ineq, 3000)
    IN  [year |-> year, base_year |-> by,
         kondratiev_phase |-> kondratiev_phase_of(year, by),
         economic_cycle |-> Max(-10000, Min(10000, cycle)),
         tech_level |-> tech,
         inequality |-> ineq,
         social_mobility |-> clamp(w.social_mobility + mobility_change - mobility_penalty)]

\* BaseWorldState.get_kondratiev_effect, in bp
get_kondratiev_effect(w) ==
    LET ph == w.kondratiev_phase
    IN  IF ph < 2500 THEN 10000 + (ph * 2000) \div 2500
        ELSE IF ph < 5000 THEN 12000 + ((ph - 2500) * 3000) \div 2500
        ELSE IF ph < 7500 THEN 10000 - ((ph - 5000) * 2000) \div 2500
        ELSE 8000 - ((ph - 7500) * 3000) \div 2500

\* is_in_elite_percentile with a strict comparison
is_in_elite_percentile_strict(person_score) == person_score > 8000

\* BaseWorldState.is_in_elite_percentile (PARETO_ELITE_THRESHOLD = 0.8)
is_in_elite_percentile(person_score) == person_score >= 8000

\* BaseWorldState.get_wealth_multiplier, in bp
get_wealth_multiplier(w, person_score) ==
    IF is_in_elite_percentile(person_score)
    THEN Mul(40000, 10000 + Mul(w.inequality, 5000))
    ELSE Mul(2500, 10000 - Mul(w.inequality, 3000))

\* BaseWorldState.get_opportunity_multiplier, in bp
get_opportunity_multiplier(w, person_score) ==
    IF is_in_elite_percentile(person_score) THEN 40000 ELSE 2500

\* BaseWorldState.get_tech_benefit_multiplier, in bp
get_tech_benefit_multiplier(w, person_score) ==
    IF is_in_elite_percentile(person_score)
    THEN 10000 + Mul(w.tech_level, 5000)
    ELSE 3000 + Mul(w.tech_level, 2000)

\* min(1.0, math.log10(max(1, wealth / 1000) + 1) / 3.0) in bp, for a wealth in
\* 1/100 units: x = max(1, wealth/1000) + 1 is located between the tabulated
\* points of log10 and the result is the value at the point below it
normalized_wealth(wealth) ==
    LET x100 == Max(100, wealth \div 1000) + 100   \* x in 1/100
    IN  IF x100 >= 100000 THEN 10000
        ELSE IF x100 >= 50000 THEN 8996
        ELSE IF x100 >= 20000 THEN 7670
        ELSE IF x100 >= 10000 THEN 6667
        ELSE IF x100 >= 5000 THEN 5663
        ELSE IF x100 >= 2000 THEN 4337
        ELSE IF x100 >= 1000 THEN 3333
        ELSE IF x100 >= 500 THEN 2330
        ELSE IF x100 >= 300 THEN 1590
        ELSE 1003

\* BaseWorldState.calculate_person_score, in bp
calculate_person_score(w, education, skill_depth, social_capital, wealth, birth_family_class) ==
    LET birth_weight == 2000 + Mul(w.inequality, 3000)
        merit_weight == 10000 - birth_weight
        merit == Mul(education, 3000) + Mul(skill_depth, 4000)
                 + Mul(social_capital, 2000)
        score == Mul(birth_family_class, birth_weight)
                 + Mul(merit + Mul(normalized_wealth(wealth), 1000), merit_weight)
        lifted == IF w.social_mobility > 5000
                  THEN Max(score, Mul(merit, w.social_mobility))
                  ELSE score
    IN  Min(10000, Max(0, lifted))

(***************************************************************************)
(* ChinaCountryModel / ChinaWorldState: eras and the window mechanism      *)
(***************************************************************************)
ChinaEra ==
    {"ESTABLISHMENT", "TURBULENCE", "REFORM_EARLY", "URBAN_BOOM",
     "STRUCTURE_SOLIDIFY", "NEW_UNCERTAINTY"}

\* _get_era_for_year with `<=` for `<`
_get_era_for_year_inclusive(year) ==
    IF year <= 1958 THEN "ESTABLISHMENT"
    ELSE IF year <= 1978 THEN "TURBULENCE"
    ELSE IF year <= 1992 THEN "REFORM_EARLY"
    ELSE IF year <= 2008 THEN "URBAN_BOOM"
    ELSE IF year <= 2020 THEN "STRUCTURE_SOLIDIFY"
    ELSE "NEW_UNCERTAINTY"

\* ChinaCountryModel._get_era_for_year, ChinaWorldState._get_era_for_year
\* (the two classes carry the same code)
_get_era_for_year(year) ==
    IF year < 1958 THEN "ESTABLISHMENT"
    ELSE IF year < 1978 THEN "TURBULENCE"
    ELSE IF year < 1992 THEN "REFORM_EARLY"
    ELSE IF year < 2008 THEN "URBAN_BOOM"
    ELSE IF year < 2020 THEN "STRUCTURE_SOLIDIFY"
    ELSE "NEW_UNCERTAINTY"

\* ChinaCountryModel._get_era_config: the fields of ChinaEraConfig the
\* simulators read, in bp
_get_era_config(era) ==
    CASE era = "ESTABLISHMENT" ->
           [era |-> era, social_mobility |-> 1500, inequality |-> 1000,
            risk_reward_ratio |-> 2000, education_return |-> 3000,
            system_shock |-> 0, health_risk |-> 0, asset_return |-> 0,
            asset_entry_cost |-> 0, stress_factor |-> 0, risk_penalty |-> 0,
            mental_health_weight |-> 10000]
      [] era = "TURBULENCE" ->
           [era |-> era, social_mobility |-> 500, inequality |-> 1500,
            risk_reward_ratio |-> 1000, education_return |-> 1000,
            system_shock |-> 9000, health_risk |-> 8000, asset_return |-> 0,
            asset_entry_cost |-> 0, stress_factor |-> 0, risk_penalty |-> 0,
            mental_health_weight |-> 10000]
      [] era = "REFORM_EARLY" ->
           [era |-> era, social_mobility |-> 4500, inequality |-> 4000,
            risk_reward_ratio |-> 15000, education_return |-> 8000,
            system_shock |-> 0, health_risk |-> 0, asset_return |-> 0,
            asset_entry_cost |-> 0, stress_factor |-> 0, risk_penalty |-> 0,
            mental_health_weight |-> 10000]
      [] era = "URBAN_BOOM" ->
           [era |-> era, social_mobility |-> 7000, inequality |-> 6000,
            risk_reward_ratio |-> 12000, education_return |-> 12000,
            system_shock |-> 0, health_risk |-> 0, asset_return |-> 18000,
            asset_entry_cost |-> 0, stress_factor |-> 0, risk_penalty |-> 0,
            mental_health_weight |-> 10000]
      [] era = "STRUCTURE_SOLIDIFY" ->
           [era |-> era, social_mobility |-> 3500, inequality |-> 7000,
            risk_reward_ratio |-> 8000, education_return |-> 9000,
            system_shock |-> 0, health_risk |-> 0, asset_return |-> 0,
            asset_entry_cost |-> 9000, stress_factor |-> 7000, risk_penalty |-> 0,
            mental_health_weight |-> 10000]
      [] OTHER ->
           [era |-> "NEW_UNCERTAINTY", social_mobility |-> 2500, inequality |-> 7500,
            risk_reward_ratio |-> 6000, education_return |-> 8000,
            system_shock |-> 0, health_risk |-> 0, asset_return |-> 0,
            asset_entry_cost |-> 0, stress_factor |-> 0, risk_penalty |-> 6000,
            mental_health_weight |-> 12000]

\* a window check that marks the window as missed in every era that is not a
\* window era, whether or not a window was seen
check_window_status_any_era(w, era) ==
    IF era = "REFORM_EARLY"
    THEN [w EXCEPT !.window_open = TRUE, !.window_era = "REFORM_EARLY"]
    ELSE IF era = "URBAN_BOOM"
    THEN [w EXCEPT !.window_open = TRUE, !.window_era = "URBAN_BOOM"]
    ELSE IF ~w.window_missed
         THEN [w EXCEPT !.window_missed = TRUE,
                        !.mobility_multiplier = Mul(w.mobility_multiplier, 3000)]
         ELSE w

\* a window check without the `not self.window_missed` guard
check_window_status_unguarded(w, era) ==
    IF era = "REFORM_EARLY"
    THEN [w EXCEPT !.window_open = TRUE, !.window_era = "REFORM_EARLY"]
    ELSE IF era = "URBAN_BOOM"
    THEN [w EXCEPT !.window_open = TRUE, !.window_era = "URBAN_BOOM"]
    ELSE IF era \in {"STRUCTURE_SOLIDIFY", "NEW_UNCERTAINTY"}
    THEN IF w.window_era \in {"REFORM_EARLY", "URBAN_BOOM"}
         THEN [w EXCEPT !.window_missed = TRUE,
                        !.mobility_multiplier = Mul(w.mobility_multiplier, 3000)]
         ELSE w
    ELSE w

\* ChinaCountryModel._check_window_status / ChinaWorldState._check_window_status
_check_window_status(w, era) ==
    IF era = "REFORM_EARLY"
    THEN [w EXCEPT !.window_open = TRUE, !.window_era = "REFORM_EARLY"]
    ELSE IF era = "URBAN_BOOM"
    THEN [w EXCEPT !.window_open = TRUE, !.window_era = "URBAN_BOOM"]
    ELSE IF era \in {"STRUCTURE_SOLIDIFY", "NEW_UNCERTAINTY"}
    THEN IF ~w.window_missed /\ w.window_era \in {"REFORM_EARLY", "URBAN_BOOM"}
         THEN [w EXCEPT !.window_missed = TRUE,
                        !.mobility_multiplier = Mul(w.mobility_multiplier, 3000)]
         ELSE w
    ELSE w


(***************************************************************************)
(* models/family_policy.py: the policy periods                             *)
(***************************************************************************)
\* FamilyPolicyEngine.get_policy_for_year
get_policy_for_year(year) ==
    IF year < 1971 THEN "PRE_CONTROL"
    ELSE IF year < 1979 THEN "SOFT_CONTROL"
    ELSE IF year < 2016 THEN "ONE_CHILD"
    ELSE IF year < 2021 THEN "TWO_CHILD"
    ELSE "THREE_CHILD_PLUS"

\* FamilyPolicyEngine.get_policy_config for an urban household, in bp;
\* only_child_probability is the table value times the urban multiplier
get_policy_config(policy) ==
    CASE policy = "PRE_CONTROL" ->
           [policy |-> policy, fertility_cap |-> 45000, enforcement_strength |-> 0,
            only_child_probability |-> Min(10000, Mul(500, 10000))]
      [] policy = "SOFT_CONTROL" ->
           [policy |-> policy, fertility_cap |-> 28000, enforcement_strength |-> 4000,
            only_child_probability |-> Min(10000, Mul(2500, 9000))]
      [] policy = "ONE_CHILD" ->
           [policy |-> policy, fertility_cap |-> 11000, enforcement_strength |-> 9000,
            only_child_probability |-> Min(10000, Mul(7500, 8000))]
      [] policy = "TWO_CHILD" ->
           [policy |-> policy, fertility_cap |-> 16000, enforcement_strength |-> 3000,
            only_child_probability |-> Min(10000, Mul(4500, 8500))]
      [] OTHER ->
           [policy |-> "THREE_CHILD_PLUS", fertility_cap |-> 13000,
            enforcement_strength |-> 1000,
            only_child_probability |-> Min(10000, Mul(5500, 7000))]

(***************************************************************************)
(* models/country_china.py: ChinaCountryModel                              *)
(***************************************************************************)
\* ChinaCountryModel.__init__(base_world, year)
ChinaCountryModel(base_world, year) ==
    LET era == _get_era_for_year(year)
        fresh == [base_world |-> base_world,
                  current_era |-> era,
                  era_config |-> _get_era_config(era),
                  window_open |-> FALSE, window_missed |-> FALSE,
                  window_era |-> "None", mobility_multiplier |-> 10000,
                  family_policy_state |-> get_policy_config(get_policy_for_year(year))]
    IN  _check_window_status(fresh, era)

\* CountryModel.update (models/country_base.py): the wrapped base world is
\* advanced with config.base_year = 1949
CountryModel_update(c, py) ==
    [c EXCEPT !.base_world = BaseWorldState_update(c.base_world, 1949, py)]

\* ChinaCountryModel.update(year); reads four random.gauss draws after py
ChinaCountryModel_update(c, year, py) ==
    LET c1 == CountryModel_update(c, py)
        new_era == _get_era_for_year(year)
        c2 == IF new_era # c1.current_era
              THEN _check_window_status(
                     [c1 EXCEPT !.current_era = new_era,
                                !.era_config = _get_era_config(new_era)], new_era)
              ELSE c1
        new_policy == get_policy_for_year(year)
    IN  IF c2.family_policy_state.policy # new_policy
        THEN [c2 EXCEPT !.family_policy_state = get_policy_config(new_policy)]
        ELSE c2

\* ChinaCountryModel.apply_country_modifiers, in bp
apply_country_modifiers(c, action_type) ==
    LET era_mod ==
          IF action_type = "study" THEN c.era_config.education_return
          ELSE IF action_type = "risk"
          THEN IF c.current_era = "NEW_UNCERTAINTY"
               THEN Mul(c.era_config.risk_reward_ratio, 10000 - c.era_config.risk_penalty)
               ELSE c.era_config.risk_reward_ratio
          ELSE 10000
    IN  IF c.window_missed /\ action_type \in {"risk", "move"}
        THEN Mul(era_mod, c.mobility_multiplier)
        ELSE era_mod

\* ChinaCountryModel.get_effective_social_mobility (social_mobility_base = 0.6)
get_effective_social_mobility(c) ==
    LET base == clamp(Mul(c.base_world.social_mobility, 6000))
        combined == (base + c.era_config.social_mobility) \div 2
    IN  clamp(IF c.window_missed THEN Mul(combined, c.mobility_multiplier) ELSE combined)

\* CountryModel.get_effective_inequality (inequality_trend = 0.3)
get_effective_inequality(c) == clamp(c.base_world.inequality + Mul(3000, 1000))

(***************************************************************************)
(* models/city.py and models/world_china.py: the city tables               *)
(***************************************************************************)
\* create_china_cities / ChinaWorldState._get_city_config (the same values)
CityConfig(city) ==
    CASE city = "beijing" ->
           [city_name |-> city, income_ceiling |-> "high", living_cost |-> "very_high",
            policy_bonus |-> 4000, mobility_threshold |-> "high",
            risk_reward_ratio |-> 6000, startup_success_rate |-> "low",
            age_penalty_age |-> 999, stability_bonus |-> 0]
      [] city = "shanghai" ->
           [city_name |-> city, income_ceiling |-> "high", living_cost |-> "very_high",
            policy_bonus |-> 2000, mobility_threshold |-> "high",
            risk_reward_ratio |-> 8000, startup_success_rate |-> "medium",
            age_penalty_age |-> 999, stability_bonus |-> 0]
      [] city = "shenzhen" ->
           [city_name |-> city, income_ceiling |-> "high", living_cost |-> "high",
            policy_bonus |-> 1000, mobility_threshold |-> "low",
            risk_reward_ratio |-> 18000, startup_success_rate |-> "high_variance",
            age_penalty_age |-> 35, stability_bonus |-> 0]
      [] OTHER ->
           [city_name |-> "guangzhou", income_ceiling |-> "medium",
            living_cost |-> "medium", policy_bonus |-> 1000,
            mobility_threshold |-> "medium", risk_reward_ratio |-> 10000,
            startup_success_rate |-> "medium", age_penalty_age |-> 999,
            stability_bonus |-> 3000]

(***************************************************************************)
(* models/world_china.py: ChinaWorldState                                  *)
(***************************************************************************)
\* ChinaWorldState(year, era, city) with __post_init__; the era argument is
\* overwritten by __post_init__
ChinaWorldState(year, city) ==
    LET era == _get_era_for_year(year)
        fresh == [year |-> year, era |-> era, city |-> city,
                  era_config |-> _get_era_config(era),
                  city_config |-> CityConfig(city),
                  window_open |-> FALSE, window_missed |-> FALSE,
                  window_era |-> "None", mobility_multiplier |-> 10000,
                  parent_assets |-> 0, property_owned |-> FALSE, property_value |-> 0,
                  family_policy_state |-> None, family_state |-> None,
                  competition_intensity |-> 5000]
    IN  _check_window_status(fresh, era)

\* ChinaWorldState.update(base_year): the argument is not read
ChinaWorldState_update(w) ==
    LET year == w.year + 1
        new_era == _get_era_for_year(year)
    IN  IF new_era # w.era
        THEN _check_window_status(
               [w EXCEPT !.year = year, !.era = new_era,
                         !.era_config = _get_era_config(new_era)], new_era)
        ELSE [w EXCEPT !.year = year]

(***************************************************************************)
(* SpecEra: one era-segmented object, constructed in any year and then     *)
(* advanced year by year, as the driver loops do.                          *)
(***************************************************************************)
Seeds == {7, 42}

NoCall == [person |-> "none"]

EraInit ==
    /\ era_obj \in {"country", "world"}
    /\ \E y0 \in FirstYear..LastYear, seed \in Seeds :
         /\ cm = ChinaCountryModel(BaseWorldState(y0, 1949), y0)
         /\ cw = ChinaWorldState(y0, "beijing")
         /\ era_year = [first |-> y0, last |-> y0, updates |-> 0]
         /\ rng = set_seed(seed)
    /\ de_in = NoCall
    /\ de_out = [returned |-> FALSE, value |-> <<>>]
    /\ runs = <<>>
    /\ mode = "none"

\* country_model.update(year): the loop of LifeSimulatorV2 passes
\* birth_year + age, so the first call repeats the construction year and
\* every later call passes the next year
CountryUpdate ==
    /\ era_obj = "country"
    /\ \E y \in {era_year.last, era_year.last + 1} :
         /\ y <= LastYear
         /\ y = era_year.last => era_year.updates = 0
         /\ cm' = ChinaCountryModel_update(cm, y, rng.py)
         /\ era_year' = [era_year EXCEPT !.last = y, !.updates = 1]
    /\ rng' = [rng EXCEPT !.py = RngNth(rng.py, 4)]
    /\ UNCHANGED <<era_obj, cw, de_in, de_out, runs, mode>>

\* china_world.update(birth_year)
WorldUpdate ==
    /\ era_obj = "world"
    /\ cw.year < LastYear
    /\ cw' = ChinaWorldState_update(cw)
    /\ UNCHANGED <<era_obj, cm, de_in, de_out, era_year, runs, mode, rng>>

EraNext == CountryUpdate \/ WorldUpdate

SpecEra == EraInit /\ [][EraNext]_vars

(***************************************************************************)
(* Properties of the era-segmented objects (SpecEra)                       *)
(***************************************************************************)
\* the object a behaviour of SpecEra exercises, and the last year it was given
EraObject == IF era_obj = "country" THEN cm ELSE cw

EraObjectYear == IF era_obj = "country" THEN era_year.last ELSE cw.year

C6_NoWindowBefore1978 ==
    EraObjectYear < 1978 =>
        /\ EraObject.window_missed = FALSE
        /\ EraObject.mobility_multiplier = 10000

\* a country model constructed in 1949 and updated through 1977
C6_Witness ==
    /\ era_obj = "country"
    /\ era_year.first = 1949
    /\ era_year.last = 1977
    /\ cm.current_era = "TURBULENCE"

\* C7: for an object constructed before 2008 and updated year by year,
\* window_missed is false until the year 2008 is reached and true from then
\* on; at the flip mobility_multiplier becomes its previous value times 0.3,
\* and once window_missed is true neither field changes again (so the
\* multiplier is 0.3 through STRUCTURE_SOLIDIFY and NEW_UNCERTAINTY).
C7_WindowMissedOnce ==
    /\ [](era_year.first < 2008 =>
            /\ EraObject.window_missed <=> (EraObjectYear >= 2008)
            /\ EraObject.mobility_multiplier =
                 IF EraObject.window_missed THEN 3000 ELSE 10000)
    /\ [][era_year.first < 2008 =>
            /\ EraObject.window_missed =>
                 /\ EraObject'.window_missed
                 /\ EraObject'.mobility_multiplier = EraObject.mobility_multiplier
            /\ (~EraObject.window_missed /\ EraObject'.window_missed) =>
                 EraObject'.mobility_multiplier = Mul(EraObject.mobility_multiplier, 3000)
       ]_vars

\* a world state constructed before the first window era and advanced into
\* NEW_UNCERTAINTY
C7_Witness ==
    /\ era_obj = "world"
    /\ era_year.first < 1978
    /\ cw.year >= 2021
    /\ cw.era = "NEW_UNCERTAINTY"
    /\ cw.window_missed
    /\ cw.mobility_multiplier = 3000

\* C28: window_open of an era-segmented object is true only while its era
\* is REFORM_EARLY or URBAN_BOOM (so it is false in STRUCTURE_SOLIDIFY and
\* NEW_UNCERTAINTY), and window_open and window_missed are never both true.
C28_WindowOpenOnlyInWindowEras ==
    LET era == IF era_obj = "country" THEN cm.current_era ELSE cw.era
    IN  /\ EraObject.window_open => era \in {"REFORM_EARLY", "URBAN_BOOM"}
        /\ ~(EraObject.window_open /\ EraObject.window_missed)

(***************************************************************************)
(* engine/decision_engine.py: DecisionEngine                               *)
(***************************************************************************)
\* the members of Action, in the order get_available_actions appends them
Actions == <<"STUDY", "WORK", "REST", "MOVE", "RISK", "RELATION">>

\* get_available_actions without the `elif person.energy < 0.3` branch of REST
get_available_actions_no_elif(person, world, personality) ==
    (IF (person.age < 30 \/ person.education_level < 8000) /\ person.energy > 3000
     THEN <<"STUDY">> ELSE <<>>)
    \o (IF person.age >= 18 /\ person.health > 2000 THEN <<"WORK">> ELSE <<>>)
    \o (IF person.stress > 5000 \/ person.health < 5000 THEN <<"REST">> ELSE <<>>)
    \o (IF (person.employment_stability < 5000 \/ personality.risk_preference > 6000)
           /\ person.age < 50
        THEN <<"MOVE">> ELSE <<>>)
    \o (IF personality.risk_preference > 5000
           /\ (world = None \/ world.economic_cycle > 0 \/ person.wealth > 30)
           /\ person.age < 60
        THEN <<"RISK">> ELSE <<>>)
    \o (IF person.loneliness > 4000 \/ personality.social_drive > 5000
        THEN <<"RELATION">> ELSE <<>>)

\* DecisionEngine.get_available_actions; wealth is compared with 0.3 currency
\* units, i.e. 30 in 1/100 units
get_available_actions(person, world, personality) ==
    (IF person.age < 30 \/ person.education_level < 8000
     THEN IF person.energy > 3000 THEN <<"STUDY">> ELSE <<>>
     ELSE <<>>)
    \o (IF person.age >= 18 /\ person.health > 2000 THEN <<"WORK">> ELSE <<>>)
    \o (IF person.stress > 5000 \/ person.health < 5000 THEN <<"REST">>
        ELSE IF person.energy < 3000 THEN <<"REST">>
        ELSE <<>>)
    \o (IF person.employment_stability < 5000 \/ personality.risk_preference > 6000
        THEN IF person.age < 50 THEN <<"MOVE">> ELSE <<>>
        ELSE <<>>)
    \o (IF personality.risk_preference > 5000
        THEN IF world = None \/ world.economic_cycle > 0 \/ person.wealth > 30
             THEN IF person.age < 60 THEN <<"RISK">> ELSE <<>>
             ELSE <<>>
        ELSE <<>>)
    \o (IF person.loneliness > 4000 \/ personality.social_drive > 5000
        THEN <<"RELATION">> ELSE <<>>)

(***************************************************************************)
(* SpecAvail: one call of get_available_actions on arguments on both sides *)
(* of every threshold the function reads.  The world argument is always an *)
(* object: the three simulators are the only callers and each passes one.  *)
(***************************************************************************)
AvailInit ==
    /\ \E age \in {17, 18, 29, 30, 49, 50, 59, 60},
          education_level \in {7999, 8000},
          energy \in {2999, 3000, 3001},
          health \in {2000, 2001, 4999, 5000},
          stress \in {5000, 5001},
          employment_stability \in {4999, 5000},
          wealth \in {30, 31},
          loneliness \in {4000, 4001},
          risk_preference \in {5000, 5001, 6000, 6001},
          social_drive \in {5000, 5001},
          economic_cycle \in {0, 1} :
         de_in = [person |-> [age |-> age, education_level |-> education_level,
                              energy |-> energy, health |-> health, stress |-> stress,
                              employment_stability |-> employment_stability,
                              wealth |-> wealth, loneliness |-> loneliness],
                  world |-> [economic_cycle |-> economic_cycle],
                  personality |-> [risk_preference |-> risk_preference,
                                   social_drive |-> social_drive]]
    /\ de_out = [returned |-> FALSE, value |-> <<>>]
    /\ era_obj = "none"
    /\ cm = ChinaCountryModel(BaseWorldState(FirstYear, 1949), FirstYear)
    /\ cw = ChinaWorldState(FirstYear, "beijing")
    /\ era_year = [first |-> FirstYear, last |-> FirstYear, updates |-> 0]
    /\ runs = <<>>
    /\ mode = "none"
    /\ rng = set_seed(42)

\* the call
GetAvailable ==
    /\ ~de_out.returned
    /\ de_in # NoCall
    /\ de_out' = [returned |-> TRUE,
                  value |-> get_available_actions(de_in.person, de_in.world,
                                                  de_in.personality)]
    /\ UNCHANGED <<era_obj, cm, cw, de_in, era_year, runs, mode, rng>>

AvailNext == GetAvailable

SpecAvail == AvailInit /\ [][AvailNext]_vars

\* the eligibility rule of one action, as the contract states it
Eligible(a) ==
    LET p == de_in.person
        q == de_in.personality
    IN  CASE a = "STUDY" -> (p.age < 30 \/ p.education_level < 8000) /\ p.energy > 3000
          [] a = "WORK" -> p.age >= 18 /\ p.health > 2000
          [] a = "REST" -> p.stress > 5000 \/ p.health < 5000 \/ p.energy < 3000
          [] a = "MOVE" -> (p.employment_stability < 5000 \/ q.risk_preference > 6000)
                           /\ p.age < 50
          [] a = "RISK" -> q.risk_preference > 5000
                           /\ (de_in.world.economic_cycle > 0 \/ p.wealth > 30)
                           /\ p.age < 60
          [] OTHER -> p.loneliness > 4000 \/ q.social_drive > 5000

MoneyCap == 100000000

\* a money amount as the model records it
Money(x) == Max(-MoneyCap, Min(MoneyCap, x))

\* the bounded fields of PersonState, i.e. those clamp_values writes
BoundedFields ==
    {"health", "mental_health", "energy", "stress", "education_level",
     "skill_depth", "skill_width", "learning_rate", "employment_stability",
     "social_capital", "loneliness"}

\* PersonState.clamp_values
clamp_values(person) ==
    [f \in DOMAIN person |->
        IF f \in BoundedFields THEN clamp(person[f]) ELSE person[f]]

\* LifeSimulator._initialize_person (the three simulators carry the same code)
_initialize_person(birth) ==
    [age |-> 0,
     health |-> birth.genetic_health,
     mental_health |-> 7000 + Mul(birth.family_stability, 2000),
     energy |-> 8000,
     stress |-> 2000 - Mul(birth.family_stability, 1000),
     education_level |-> Mul(birth.parents_education, 3000),
     skill_depth |-> 0,
     skill_width |-> 0,
     learning_rate |-> birth.cognitive_potential,
     income |-> 0,
     wealth |-> birth.family_class * 100,
     employment_stability |-> 0,
     social_capital |-> Mul(birth.family_stability, 3000),
     loneliness |-> 3000 - Mul(birth.family_stability, 2000)]

(***************************************************************************)
(* models/city.py: City                                                    *)
(***************************************************************************)
\* City.get_city_modifier_for_action, in bp
City_get_city_modifier_for_action(city, action_type) ==
    CASE action_type = "study" ->
           10000 + (IF city.policy_bonus > 3000 THEN Mul(city.policy_bonus, 5000) ELSE 0)
      [] action_type = "work" -> 10000 + Mul(city.policy_bonus, 3000)
      [] action_type = "risk" -> city.risk_reward_ratio
      [] action_type = "relation" -> 10000 + city.stability_bonus
      [] OTHER -> 10000

\* City.get_income_multiplier, in bp
get_income_multiplier(city) ==
    CASE city.income_ceiling = "low" -> 7000
      [] city.income_ceiling = "high" -> 15000
      [] OTHER -> 10000

\* City.get_living_cost_multiplier, in bp
get_living_cost_multiplier(city) ==
    CASE city.living_cost = "low" -> 5000
      [] city.living_cost = "high" -> 20000
      [] city.living_cost = "very_high" -> 30000
      [] OTHER -> 10000

\* City.get_mobility_modifier, in bp
get_mobility_modifier(city) ==
    CASE city.mobility_threshold = "low" -> 12000
      [] city.mobility_threshold = "high" -> 8000
      [] OTHER -> 10000

\* City.get_stress_modifier, in bp
City_get_stress_modifier(city) ==
    CASE city.living_cost = "low" -> 0
      [] city.living_cost = "high" -> 2000
      [] city.living_cost = "very_high" -> 3000
      [] OTHER -> 1000

(***************************************************************************)
(* engine/transition_engine.py: TransitionEngine.  A handler works on a    *)
(* context c = [p, np, py, applied]: the person, the two generator states  *)
(* and the log of the handlers executed so far in the year.  np advances   *)
(* once per apply_noise, py once per rng.random.                           *)
(***************************************************************************)
\* the score the handlers ask the base world for
person_score_of(base_world, p, birth_profile) ==
    calculate_person_score(base_world, p.education_level, p.skill_depth,
                           p.social_capital, p.wealth, birth_profile.family_class)

\* the personality apply_actions substitutes for a missing one
DefaultPersonality ==
    [openness |-> 5000, conscientiousness |-> 5000, risk_preference |-> 5000,
     social_drive |-> 5000, resilience |-> 5000]

\* TransitionEngine._apply_study
_apply_study(c, base_world, country_model, city, personality, birth_profile) ==
    LET p == c.p
        base0 == Mul(p.learning_rate, 5000 + Mul(base_world.tech_level, 5000))
        base1 == IF birth_profile # None
                 THEN Mul(base0, get_tech_benefit_multiplier(
                                   base_world, person_score_of(base_world, p, birth_profile)))
                 ELSE base0
        base2 == IF country_model # None
                 THEN Mul(base1, apply_country_modifiers(country_model, "study"))
                 ELSE base1
        base3 == IF city # None
                 THEN Mul(base2, City_get_city_modifier_for_action(city, "study"))
                 ELSE base2
        gain == apply_noise(Mul(base3, 500), RngNth(c.np, 1))
    IN  [c EXCEPT !.np = RngNth(c.np, 3),
                  !.p = [p EXCEPT !.education_level = @ + gain,
                                  !.skill_depth = @ + Mul(gain, 8000),
                                  !.skill_width = @ + Mul(gain, 3000),
                                  !.energy = @ - apply_noise(1000, RngNth(c.np, 2)),
                                  !.stress = @ + apply_noise(200, RngNth(c.np, 3)),
                                  !.income = IF p.age >= 18 THEN MulMoney(@, 9000) ELSE @]]

\* TransitionEngine._apply_work
_apply_work(c, base_world, country_model, city, personality, birth_profile) ==
    LET p == c.p
        skill_factor == Mul(p.skill_depth, 7000) + Mul(p.skill_width, 3000)
        economic_factor == (base_world.economic_cycle + 10000) \div 2
        base0 == (Mul(skill_factor, 5000) + Mul(p.education_level, 3000)
                  + Mul(economic_factor, 2000)) * 10
        base1 == MulMoney(base0, get_kondratiev_effect(base_world))
        wealth_multiplier ==
            get_wealth_multiplier(base_world, person_score_of(base_world, p, birth_profile))
        base2 == IF birth_profile # None THEN MulMoney(base1, wealth_multiplier) ELSE base1
        base3 == IF country_model # None
                 THEN MulMoney(base2, apply_country_modifiers(country_model, "work"))
                 ELSE base2
        base4 == IF city # None
                 THEN MulMoney(base3, Mul(City_get_city_modifier_for_action(city, "work"),
                                          get_income_multiplier(city)))
                 ELSE base3
        income_gain == apply_noise_money(Money(base4), RngNth(c.np, 1))
        income == Money(Max(MulMoney(p.income, 9500), income_gain))
        wealth == IF birth_profile # None
                  THEN p.wealth + MulMoney(MulMoney(income, 3000), wealth_multiplier)
                  ELSE p.wealth + MulMoney(income, 3000)
        career == personality.conscientiousness > 6000
        k == IF career THEN 3 ELSE 1      \* draws made so far
        stability == IF career
                     THEN p.employment_stability + apply_noise(200, RngNth(c.np, 2))
                     ELSE p.employment_stability
        depth == IF career
                 THEN p.skill_depth + apply_noise(100, RngNth(c.np, 3))
                 ELSE p.skill_depth
        stress1 == p.stress + apply_noise(500, RngNth(c.np, k + 2))
        stress == IF city # None
                  THEN stress1 + Mul(City_get_stress_modifier(city), 1000)
                  ELSE stress1
        strained == stress > 7000
    IN  [c EXCEPT !.np = RngNth(c.np, IF strained THEN k + 3 ELSE k + 2),
                  !.p = [p EXCEPT !.income = income,
                                  !.wealth = Money(wealth),
                                  !.employment_stability = stability,
                                  !.skill_depth = depth,
                                  !.energy = @ - apply_noise(1500, RngNth(c.np, k + 1)),
                                  !.stress = stress,
                                  !.health = IF strained
                                             THEN @ - apply_noise(100, RngNth(c.np, k + 3))
                                             ELSE @]]

\* TransitionEngine._apply_rest
_apply_rest(c, personality) ==
    LET p == c.p
        recovery == apply_noise(Mul(1000, 10000 + personality.resilience), RngNth(c.np, 1))
    IN  [c EXCEPT !.np = RngNth(c.np, 1),
                  !.p = [p EXCEPT !.energy = @ + recovery,
                                  !.stress = @ - Mul(recovery, 8000),
                                  !.health = @ + Mul(recovery, 3000),
                                  !.mental_health = @ + Mul(recovery, 2000),
                                  !.income = IF p.income > 0 THEN MulMoney(@, 9500) ELSE @]]

\* success_chance of _apply_move, as it stands before the draw that decides
\* the outcome
move_success_chance(p, base_world, country_model, city, birth_profile) ==
    LET person_score == person_score_of(base_world, p, birth_profile)
        chance0 == IF birth_profile # None
                   THEN Min(9500, Mul(6000, get_opportunity_multiplier(base_world, person_score)))
                   ELSE 6000
        chance1 == IF country_model # None
                   THEN Mul(chance0, apply_country_modifiers(country_model, "move"))
                   ELSE chance0
    IN  IF city # None THEN Mul(chance1, get_mobility_modifier(city)) ELSE chance1

\* TransitionEngine._apply_move
_apply_move(c, base_world, country_model, city, personality, birth_profile) ==
    LET p == c.p
        person_score == person_score_of(base_world, p, birth_profile)
        success_chance == move_success_chance(p, base_world, country_model, city, birth_profile)
        py1 == RngNext(c.py)
        success == random(py1) < success_chance
        income_mult0 == apply_noise(12000, RngNth(c.np, 2))
        income_mult == IF birth_profile # None
                       THEN Mul(income_mult0, get_wealth_multiplier(base_world, person_score))
                       ELSE income_mult0
        cost == IF city # None
                THEN MulMoney(50000, get_living_cost_multiplier(city))
                ELSE 50000
        p1 == IF success
              THEN [p EXCEPT !.employment_stability = @ + apply_noise(1000, RngNth(c.np, 1)),
                             !.income = Money(MulMoney(@, income_mult)),
                             !.social_capital = @ + apply_noise(500, RngNth(c.np, 3))]
              ELSE [p EXCEPT !.employment_stability = @ - apply_noise(1000, RngNth(c.np, 1)),
                             !.income = MulMoney(@, apply_noise(8000, RngNth(c.np, 2))),
                             !.stress = @ + apply_noise(1000, RngNth(c.np, 3))]
    IN  [c EXCEPT !.np = RngNth(c.np, 6),
                  !.py = py1,
                  !.p = [p1 EXCEPT !.wealth = Money(@ - apply_noise_money(cost, RngNth(c.np, 4))),
                                   !.energy = @ - apply_noise(2000, RngNth(c.np, 5)),
                                   !.stress = @ + apply_noise(500, RngNth(c.np, 6))]]

\* success_chance of _apply_risk, as it stands before `min(0.95, ...)`; the
\* draws are read after c.py
risk_success_chance(c, base_world, country_model, city, birth_profile) ==
    LET p == c.p
        opportunity_mult == IF birth_profile # None
                            THEN get_opportunity_multiplier(
                                   base_world, person_score_of(base_world, p, birth_profile))
                            ELSE 10000
        py1 == RngNext(c.py)
        base_success_chance ==
            Mul(p.skill_depth, 3000) + Mul(p.social_capital, 2000)
            + Mul((base_world.economic_cycle + 10000) \div 2, 3000)
            + Mul(random(py1), 2000)
        chance0 == Mul(base_success_chance, opportunity_mult)
        chance1 == IF country_model # None
                   THEN Mul(chance0, apply_country_modifiers(country_model, "risk"))
                   ELSE chance0
        high_variance == city # None /\ city.startup_success_rate = "high_variance"
        chance2 == IF city # None
                   THEN IF high_variance
                        THEN 4000 + Mul(random(RngNext(py1)), 4000)
                        ELSE Mul(chance1, City_get_city_modifier_for_action(city, "risk"))
                   ELSE chance1
    IN  IF city # None /\ p.age > city.age_penalty_age
        THEN Mul(chance2, 7000)
        ELSE chance2

\* TransitionEngine._apply_risk
_apply_risk(c, base_world, country_model, city, personality, birth_profile) ==
    LET p == c.p
        person_score == IF birth_profile # None
                        THEN person_score_of(base_world, p, birth_profile)
                        ELSE 5000
        opportunity_mult == IF birth_profile # None
                            THEN get_opportunity_multiplier(base_world, person_score)
                            ELSE 10000
        py1 == RngNext(c.py)
        high_variance == city # None /\ city.startup_success_rate = "high_variance"
        py2 == IF high_variance THEN RngNext(py1) ELSE py1
        success_chance ==
            Min(9500, risk_success_chance(c, base_world, country_model, city, birth_profile))
        wealth_mult == get_wealth_multiplier(base_world, person_score)
        base_wealth_gain ==
            apply_noise_money(Money(500000 + MulMoney(p.wealth, 5000)), RngNth(c.np, 1))
        loss_mult == IF opportunity_mult > 10000
                     THEN (10000 * 10000) \div opportunity_mult
                     ELSE 10000
        p1 == IF success_chance > 5000
              THEN [p EXCEPT !.wealth = Money(@ + Money(MulMoney(base_wealth_gain, wealth_mult))),
                             !.income = Money(MulMoney(@, Mul(apply_noise(15000, RngNth(c.np, 2)),
                                                              wealth_mult))),
                             !.social_capital = @ + apply_noise(1000, RngNth(c.np, 3))]
              ELSE [p EXCEPT !.wealth = Money(@ - apply_noise_money(
                                                     MulMoney(MulMoney(@, 3000), loss_mult),
                                                     RngNth(c.np, 1))),
                             !.stress = @ + apply_noise(1500, RngNth(c.np, 2)),
                             !.employment_stability = @ - apply_noise(1000, RngNth(c.np, 3))]
    IN  [c EXCEPT !.np = RngNth(c.np, 5),
                  !.py = py2,
                  !.p = [p1 EXCEPT !.energy = @ - apply_noise(2000, RngNth(c.np, 4)),
                                   !.stress = @ + apply_noise(1000, RngNth(c.np, 5))]]

\* TransitionEngine._apply_relation
_apply_relation(c, personality) ==
    LET p == c.p
        social_gain == apply_noise(Mul(1000, 10000 + personality.social_drive),
                                   RngNth(c.np, 1))
    IN  [c EXCEPT !.np = RngNth(c.np, 3),
                  !.p = [p EXCEPT !.social_capital = @ + social_gain,
                                  !.loneliness = @ - Mul(social_gain, 8000),
                                  !.mental_health = @ + Mul(social_gain, 3000),
                                  !.energy = @ - apply_noise(500, RngNth(c.np, 2)),
                                  !.wealth = Money(@ - apply_noise_money(10000, RngNth(c.np, 3)))]]

\* TransitionEngine._apply_aging
_apply_aging(c) ==
    LET p == c.p
        k1 == IF p.age > 40 THEN 1 ELSE 0
        k2 == IF p.age > 60 THEN k1 + 2 ELSE k1
        health1 == IF p.age > 40
                   THEN p.health - apply_noise((p.age - 40) * 20, RngNth(c.np, 1))
                   ELSE p.health
        health2 == IF p.age > 60
                   THEN health1 - apply_noise(100, RngNth(c.np, k1 + 1))
                   ELSE health1
        calm == p.stress < 5000
    IN  [c EXCEPT !.np = RngNth(c.np, IF calm THEN k2 + 1 ELSE k2),
                  !.p = [p EXCEPT !.health = health2,
                                  !.energy = IF p.age > 60
                                             THEN @ - apply_noise(100, RngNth(c.np, k1 + 2))
                                             ELSE @,
                                  !.learning_rate = IF p.age > 30 THEN Mul(@, 9950) ELSE @,
                                  !.stress = IF calm
                                             THEN @ + apply_noise(100, RngNth(c.np, k2 + 1))
                                             ELSE @]]

\* _apply_action with a final `else` that rests
_apply_action_else_rest(c, base_world, country_model, city, personality, action, birth_profile) ==
    LET c1 == CASE action = "STUDY" ->
                     _apply_study(c, base_world, country_model, city, personality, birth_profile)
                [] action = "WORK" ->
                     _apply_work(c, base_world, country_model, city, personality, birth_profile)
                [] action = "MOVE" ->
                     _apply_move(c, base_world, country_model, city, personality, birth_profile)
                [] action = "RISK" ->
                     _apply_risk(c, base_world, country_model, city, personality, birth_profile)
                [] action = "RELATION" -> _apply_relation(c, personality)
                [] OTHER -> _apply_rest(c, personality)
    IN  [c1 EXCEPT !.applied = Append(@, [action |-> action, personality |-> personality])]

\* TransitionEngine._apply_action; the executed handler is logged with the
\* personality it ran with
_apply_action(c, base_world, country_model, city, personality, action, birth_profile) ==
    LET c1 == CASE action = "STUDY" ->
                     _apply_study(c, base_world, country_model, city, personality, birth_profile)
                [] action = "WORK" ->
                     _apply_work(c, base_world, country_model, city, personality, birth_profile)
                [] action = "REST" -> _apply_rest(c, personality)
                [] action = "MOVE" ->
                     _apply_move(c, base_world, country_model, city, personality, birth_profile)
                [] action = "RISK" ->
                     _apply_risk(c, base_world, country_model, city, personality, birth_profile)
                [] action = "RELATION" -> _apply_relation(c, personality)
                [] OTHER -> c
    IN  [c1 EXCEPT !.applied = Append(@, [action |-> action, personality |-> personality])]

\* the loop `for action in actions` of apply_actions
RECURSIVE ApplyEach(_, _, _, _, _, _, _)
ApplyEach(c, base_world, country_model, city, personality, actions, birth_profile) ==
    IF actions = <<>> THEN c
    ELSE ApplyEach(_apply_action(c, base_world, country_model, city, personality,
                                 Head(actions), birth_profile),
                   base_world, country_model, city, personality, Tail(actions),
                   birth_profile)

\* TransitionEngine.apply_actions with its parameters in their declared
\* order; a list argument is passed as [list |-> ...], a missing one as None.
\* The legacy parameter `world` is passed by no caller.
apply_actions(c, base_world, country_model, city, personality, actions, birth_profile) ==
    LET acts == IF actions = None THEN <<>> ELSE actions.list
        pers == IF personality = None THEN DefaultPersonality ELSE personality
        bw == IF base_world = None THEN BaseWorldState(1950, 1950) ELSE base_world
        Clamped(c2) == [c2 EXCEPT !.p = clamp_values(c2.p)]
    IN  Clamped(_apply_aging(ApplyEach(c, bw, country_model, city, pers, acts,
                                       birth_profile)))

(***************************************************************************)
(* models/world.py: WorldState (the world of LifeSimulator and the adapter *)
(* the other simulators hand to the decision engine)                       *)
(***************************************************************************)
\* WorldState(year, economic_cycle, tech_level, social_mobility, inequality,
\* conflict_risk)
WorldState(year, economic_cycle, tech_level, social_mobility, inequality, conflict_risk) ==
    [year |-> year, economic_cycle |-> economic_cycle, tech_level |-> tech_level,
     social_mobility |-> social_mobility, inequality |-> inequality,
     conflict_risk |-> conflict_risk]

\* WorldState.update(base_year); six draws are read after generator state py
WorldState_update(w, base_year, py) ==
    LET cycle == SinCycle(w.year - base_year) + gauss(0, 1000, RngNth(py, 1))
        tech == clamp(w.tech_level + gauss(100, 50, RngNth(py, 2)))
        mobility_change == gauss(0, 200, RngNth(py, 3))
        mobility_penalty == Mul(w.inequality, 3000)
        inequality_growth == Mul(tech, 10)
        conflict == IF random(RngNth(py, 5)) < 500
                    THEN Min(10000, w.conflict_risk + uniform(1000, 3000, RngNth(py, 6)))
                    ELSE Max(0, w.conflict_risk - uniform(0, 200, RngNth(py, 6)))
    IN  [year |-> w.year + 1,
         economic_cycle |-> Max(-10000, Min(10000, cycle)),
         tech_level |-> tech,
         social_mobility |-> clamp(w.social_mobility + mobility_change - mobility_penalty),
         inequality |-> clamp(w.inequality + gauss(inequality_growth, 100, RngNth(py, 4))),
         conflict_risk |-> conflict]

(***************************************************************************)
(* narrative/life_events.py: LifeEventDetector                             *)
(***************************************************************************)
\* the keys _apply_event_impact caps at 1.0 when the value is not negative
CappedKeys == {"health", "mental_health", "energy", "stress"}

\* one key of LifeEventDetector._apply_event_impact
apply_impact_value(person, key, value) ==
    IF value < 0
    THEN [person EXCEPT ![key] = Max(0, @ + value)]
    ELSE IF key \in CappedKeys
         THEN [person EXCEPT ![key] = Min(10000, @ + value)]
         ELSE IF key \in {"income", "wealth"}
              THEN [person EXCEPT ![key] = Money(@ + value)]
              ELSE [person EXCEPT ![key] = @ + value]

\* LifeEventDetector._apply_event_impact: the keys of the impact in order
RECURSIVE _apply_event_impact(_, _)
_apply_event_impact(person, impact) ==
    IF impact = <<>> THEN person
    ELSE _apply_event_impact(
           apply_impact_value(person, Head(impact).key, Head(impact).value),
           Tail(impact))

\* an event as check_events builds it
LifeEvent(world, person, title, impact) ==
    [year |-> world.year, age |-> person.age, title |-> title, impact |-> impact]

\* the events check_events finds, in the order it appends them
new_events_of(person, world, previous_state) ==
    (IF person.stress > 8000 /\ (previous_state = None \/ previous_state.stress <= 8000)
     THEN <<LifeEvent(world, person, "Burnout",
                      <<[key |-> "health", value |-> -1000],
                        [key |-> "mental_health", value |-> -1500],
                        [key |-> "energy", value |-> -2000]>>)>>
     ELSE <<>>)
    \o (IF person.skill_depth > 7000 /\ person.employment_stability > 6000
           /\ world.economic_cycle > 0
           /\ (previous_state = None \/ previous_state.skill_depth <= 7000)
        THEN <<LifeEvent(world, person, "Career Breakthrough",
                         <<[key |-> "income", value |-> MulMoney(person.income, 3000)],
                           [key |-> "wealth", value |-> 200000],
                           [key |-> "social_capital", value |-> 1000]>>)>>
        ELSE <<>>)
    \o (IF person.loneliness > 9000
           /\ (previous_state = None \/ previous_state.loneliness <= 9000)
        THEN <<LifeEvent(world, person, "Social Isolation",
                         <<[key |-> "mental_health", value |-> -2000],
                           [key |-> "health", value |-> -500]>>)>>
        ELSE <<>>)
    \o (IF person.wealth < 0 /\ person.income < 50000 /\ world.economic_cycle < -5000
        THEN <<LifeEvent(world, person, "Economic Hardship",
                         <<[key |-> "stress", value |-> 1500],
                           [key |-> "mental_health", value |-> -1000]>>)>>
        ELSE <<>>)
    \o (IF person.education_level >= 8000
           /\ (previous_state = None \/ previous_state.education_level < 8000)
        THEN <<LifeEvent(world, person, "Educational Achievement",
                         <<[key |-> "skill_depth", value |-> 1000],
                           [key |-> "income", value |-> MulMoney(person.income, 2000)]>>)>>
        ELSE <<>>)
    \o (IF person.health < 3000 /\ (previous_state = None \/ previous_state.health >= 3000)
        THEN <<LifeEvent(world, person, "Health Crisis",
                         <<[key |-> "wealth", value |-> -200000],
                           [key |-> "energy", value |-> -3000]>>)>>
        ELSE <<>>)

\* the loop `for event in new_events` of check_events, on the person
RECURSIVE ApplyEvents(_, _)
ApplyEvents(person, events) ==
    IF events = <<>> THEN person
    ELSE ApplyEvents(_apply_event_impact(person, Head(events).impact), Tail(events))

\* check_events without the snapshot of the person before the year's actions
check_events_no_snapshot(person, world, previous_state) ==
    [person |-> ApplyEvents(person, new_events_of(person, world, None)),
     new_events |-> new_events_of(person, world, None)]

\* LifeEventDetector.check_events: the person after the impacts and the
\* events appended to detected_events
check_events(person, world, previous_state) ==
    LET new_events == new_events_of(person, world, previous_state)
    IN  [person |-> ApplyEvents(person, new_events), new_events |-> new_events]

(***************************************************************************)
(* engine/decision_engine.py: selection                                    *)
(***************************************************************************)
\* `action in list`
In(action, list) == \E k \in 1..Len(list) : list[k] = action

\* the first element of `available` that is not in `selected`; 0 if none
FirstUnselected(available, selected) ==
    IF \E k \in 1..Len(available) : ~In(available[k], selected)
    THEN CHOOSE k \in 1..Len(available) :
           /\ ~In(available[k], selected)
           /\ \A j \in 1..(k - 1) : In(available[j], selected)
    ELSE 0

\* the loop `while len(selected) < self.max_actions_per_year and available`
\* of _auto_select.  A pass of its for loop that appends nothing leaves the
\* loop condition as it was, so the loop never ends: spins is TRUE then.
RECURSIVE FillSlots(_, _)
FillSlots(selected, available) ==
    IF Len(selected) < max_actions_per_year /\ available # <<>>
    THEN LET k == FirstUnselected(available, selected)
         IN  IF k = 0
             THEN [spins |-> TRUE, selected |-> selected]
             ELSE FillSlots(Append(selected, available[k]), available)
    ELSE [spins |-> FALSE, selected |-> selected]

\* _auto_select whose conscientious branch does not read education_level
_auto_select_any_education(available, person, personality) ==
    LET s1 == IF person.stress > 7000 /\ In("REST", available) THEN <<"REST">>
              ELSE IF person.health < 3000 /\ In("REST", available) THEN <<"REST">>
              ELSE <<>>
        s2 == IF personality.conscientiousness > 7000
              THEN IF In("STUDY", available)
                   THEN Append(s1, "STUDY")
                   ELSE IF In("WORK", available) THEN Append(s1, "WORK") ELSE s1
              ELSE IF personality.social_drive > 7000
              THEN IF In("RELATION", available) THEN Append(s1, "RELATION") ELSE s1
              ELSE IF personality.risk_preference > 7000
              THEN IF In("RISK", available) THEN Append(s1, "RISK") ELSE s1
              ELSE s1
        filled == FillSlots(s2, available)
    IN  [spins |-> filled.spins,
         selected |-> SubSeq(filled.selected, 1,
                             Min(max_actions_per_year, Len(filled.selected)))]

\* DecisionEngine._auto_select
_auto_select(available, person, personality) ==
    LET s1 == IF person.stress > 7000 /\ In("REST", available) THEN <<"REST">>
              ELSE IF person.health < 3000 /\ In("REST", available) THEN <<"REST">>
              ELSE <<>>
        s2 == IF personality.conscientiousness > 7000
              THEN IF In("STUDY", available) /\ person.education_level < 8000
                   THEN Append(s1, "STUDY")
                   ELSE IF In("WORK", available) THEN Append(s1, "WORK") ELSE s1
              ELSE IF personality.social_drive > 7000
              THEN IF In("RELATION", available) THEN Append(s1, "RELATION") ELSE s1
              ELSE IF personality.risk_preference > 7000
              THEN IF In("RISK", available) THEN Append(s1, "RISK") ELSE s1
              ELSE s1
        filled == FillSlots(s2, available)
    IN  [spins |-> filled.spins,
         selected |-> SubSeq(filled.selected, 1,
                             Min(max_actions_per_year, Len(filled.selected)))]

\* DecisionEngine.select_actions; user_choices is None or [list |-> ...]
select_actions(person, world, personality, user_choices) ==
    LET available == get_available_actions(person, world, personality)
    IN  IF user_choices # None /\ user_choices.list # <<>>
        THEN LET valid == SelectSeq(user_choices.list, LAMBDA a : In(a, available))
             IN  [spins |-> FALSE,
                  selected |-> SubSeq(valid, 1, Min(max_actions_per_year, Len(valid)))]
        ELSE _auto_select(available, person, personality)

(***************************************************************************)
(* models/family_policy.py: family structure                               *)
(***************************************************************************)
\* RNG.choice: one draw selects an element of the list
choice(choices, s) == choices[((random(s) * Len(choices)) \div 10000) + 1]

\* FamilyPolicyEngine.generate_family_structure(birth_year, family_wealth,
\* True, rng); family_wealth is in 1/100 units.  The draws are read after
\* generator state py; the result carries the state after the last draw.
generate_family_structure(birth_year, family_wealth, py) ==
    LET policy_config == get_policy_config(get_policy_for_year(birth_year))
        strong == policy_config.enforcement_strength > 5000
        only == random(RngNth(py, 1)) < policy_config.only_child_probability
        k == IF strong THEN (IF only THEN 1 ELSE 2) ELSE 1   \* draws for siblings
        siblings ==
            IF strong
            THEN IF only THEN 0
                 ELSE IF policy_config.fertility_cap < 15000
                      THEN choice(<<0, 1>>, RngNth(py, 2))
                      ELSE choice(<<0, 1, 2>>, RngNth(py, 2))
            ELSE Min(5, Max(0, gauss(policy_config.fertility_cap, 8000, RngNth(py, 1)))
                        \div 10000)
        is_only_child == siblings = 0
    IN  [family_state |->
           [siblings |-> siblings,
            is_only_child |-> is_only_child,
            parental_pressure |->
                IF is_only_child THEN 6000 + Mul(random(RngNth(py, k + 1)), 3000)
                ELSE 3000 + Mul(random(RngNth(py, k + 1)), 3000),
            intergenerational_support |->
                IF is_only_child THEN 2000 + Mul(random(RngNth(py, k + 2)), 2000)
                ELSE 5000 + Mul(random(RngNth(py, k + 2)), 3000),
            caregiver_burden |-> 0,
            family_wealth_per_child |-> family_wealth \div (siblings + 1)],
         py |-> RngNth(py, k + 2)]

\* apply_only_child_effects with no floor under social_drive
apply_only_child_effects_unclamped(ctx, age, city_tier) ==
    IF ~ctx.family_state.is_only_child THEN ctx
    ELSE
      LET middle == age > 45
          tier1 == city_tier \in {"tier1", "Tier1", "beijing", "shanghai"}
          stress1 == IF middle THEN Min(10000, ctx.person.stress + 2000)
                     ELSE ctx.person.stress
      IN  [person |->
             [ctx.person EXCEPT !.learning_rate = Mul(@, 12000),
                                !.loneliness = Min(10000, @ + 1500),
                                !.stress = IF tier1 THEN Min(10000, stress1 + 1000)
                                           ELSE stress1],
           personality |->
             [ctx.personality EXCEPT !.conscientiousness = Min(10000, @ + 1000),
                                     !.social_drive = @ - 1000,
                                     !.resilience = Max(0, @ - 1000)],
           family_state |->
             [ctx.family_state EXCEPT !.caregiver_burden =
                                         IF middle THEN Min(10000, @ + 3000) ELSE @]]

\* FamilyPolicyEngine.apply_only_child_effects on ctx = [person, personality,
\* family_state]
apply_only_child_effects(ctx, age, city_tier) ==
    IF ~ctx.family_state.is_only_child THEN ctx
    ELSE
      LET middle == age > 45
          tier1 == city_tier \in {"tier1", "Tier1", "beijing", "shanghai"}
          stress1 == IF middle THEN Min(10000, ctx.person.stress + 2000)
                     ELSE ctx.person.stress
      IN  [person |->
             [ctx.person EXCEPT !.learning_rate = Mul(@, 12000),
                                !.loneliness = Min(10000, @ + 1500),
                                !.stress = IF tier1 THEN Min(10000, stress1 + 1000)
                                           ELSE stress1],
           personality |->
             [ctx.personality EXCEPT !.conscientiousness = Min(10000, @ + 1000),
                                     !.social_drive = Max(0, @ - 1000),
                                     !.resilience = Max(0, @ - 1000)],
           family_state |->
             [ctx.family_state EXCEPT !.caregiver_burden =
                                         IF middle THEN Min(10000, @ + 3000) ELSE @]]

\* FamilyPolicyEngine.calculate_competition_intensity
calculate_competition_intensity(family_state, city_tier, era) ==
    Min(10000,
        5000 + (IF family_state.is_only_child THEN 2000 ELSE 0)
             + (IF city_tier \in {"tier1", "Tier1", "beijing", "shanghai", "shenzhen"}
                THEN 3000 ELSE 0)
             + (IF era = "ONE_CHILD" THEN 2000 ELSE 0))

\* FamilyPolicyEngine.update_caregiver_burden(family_state, age)
update_caregiver_burden(family_state, age) ==
    LET parent_age == age + 28
        burden_increase ==
            IF family_state.is_only_child
            THEN (500 * (parent_age - 60)) \div 20
            ELSE ((200 * (parent_age - 60)) \div 20) \div (family_state.siblings + 1)
    IN  IF parent_age >= 60
        THEN [family_state EXCEPT !.caregiver_burden = Min(10000, @ + burden_increase)]
        ELSE family_state

(***************************************************************************)
(* The simulators.  A run is one simulator object together with one call   *)
(* of its simulate method (for kind "china_life": one call of              *)
(* simulate_china_life).  Its fields:                                      *)
(*   kind, birth, personality, city, max_age, seeded, seed, user_actions,  *)
(*   cm_none: the arguments (cm_none: the caller's country model has no    *)
(*     base world of its own); requested_city: the city name as passed;    *)
(*   pc: "new", "prepared", "constructed", "running", then "returned",     *)
(*     "raised" (an exception left simulate) or "spinning" (control is in  *)
(*     a loop it never leaves);                                            *)
(*   person, previous_state, world, base_world, country_model, cm_alias,   *)
(*   china_world, family_state: the locals of simulate;                    *)
(*   detected_events: LifeEventDetector.detected_events;                   *)
(*   selected, applied: what select_actions returned in the last completed *)
(*     year and the handlers apply_actions executed in it;                 *)
(*   result: the returned dictionary.                                      *)
(* A step operator maps [run, rng] to [run, rng].                          *)
(***************************************************************************)
\* `user_actions.get(person.age, []) if user_actions else None`;
\* user_actions is None or [dict |-> a function from ages to action lists]
year_actions_of(user_actions, age) ==
    IF user_actions # None /\ DOMAIN user_actions.dict # {}
    THEN [list |-> IF age \in DOMAIN user_actions.dict
                   THEN user_actions.dict[age] ELSE <<>>]
    ELSE None

\* City(config, country_model) for a city name, or None for no city
CityOf(city) == IF city = "none" THEN None ELSE CityConfig(city)

\* the loop condition with `<=` for `<`
LoopCondition_inclusive(r) == r.person.age <= r.max_age /\ r.person.health > 0

\* the condition of the main simulation loop
LoopCondition(r) == r.person.age < r.max_age /\ r.person.health > 0

\* _event_to_dict
_event_to_dict(e) == [year |-> e.year, age |-> e.age, title |-> e.title]

\* events = [self._event_to_dict(e) for e in events]
EventDicts(events) == [k \in 1..Len(events) |-> _event_to_dict(events[k])]

\* simulate_china_life up to the construction of the simulator (kind
\* "china_life"), or what a caller of LifeSimulatorV2 builds (kind "v2")
PrepareOp(r, g) ==
    LET base_world == BaseWorldState(r.birth.birth_year, 1949)
        china_model == ChinaCountryModel(IF r.cm_none THEN None ELSE base_world,
                                         r.birth.birth_year)
        city_name == IF r.kind = "china_life"
                        /\ r.city \notin {"beijing", "shanghai", "shenzhen", "guangzhou"}
                     THEN "beijing" ELSE r.city
        family == generate_family_structure(r.birth.birth_year,
                                            r.birth.family_class * 1000, g.py)
    IN  [run |-> [r EXCEPT !.pc = "prepared",
                           !.country_model = china_model,
                           !.city = city_name,
                           !.family_state = IF r.kind = "china_life"
                                            THEN family.family_state ELSE @],
         rng |-> IF r.kind = "china_life" THEN [g EXCEPT !.py = family.py] ELSE g]

\* LifeSimulator.__init__ / LifeSimulatorV2.__init__ / ChinaLifeSimulator.__init__
ConstructOp(r, g) ==
    [run |-> [r EXCEPT !.pc = "constructed", !.detected_events = <<>>],
     rng |-> IF r.seeded THEN set_seed(r.seed) ELSE g]

\* LifeSimulator.simulate up to its loop
Begin_v1(r, g) ==
    [run |-> [r EXCEPT !.pc = "running",
                       !.person = _initialize_person(r.birth),
                       !.world = WorldState(r.birth.birth_year, 0,
                                            3000 + ((r.birth.birth_year % 100) * 4000) \div 100,
                                            5000, 5000, 1000)],
     rng |-> g]

\* LifeSimulatorV2.simulate up to its loop
Begin_v2(r, g) ==
    [run |-> [r EXCEPT !.pc = "running",
                       !.person = _initialize_person(r.birth),
                       !.base_world = BaseWorldState(r.birth.birth_year, 1949),
                       !.cm_alias = r.country_model.base_world = None],
     rng |-> g]

\* one iteration of the loop of LifeSimulator.simulate
Year_v1(r, g) ==
    LET py1 == RngNth(g.py, 6)
        age == r.person.age + 1
        \* the end of the iteration
        Aged(world, sel, c, ev) ==
            [run |-> [r EXCEPT !.world = [world EXCEPT !.year = r.birth.birth_year + age],
                               !.previous_state = r.person,
                               !.person = [ev.person EXCEPT !.age = @ + 1],
                               !.detected_events = @ \o ev.new_events,
                               !.selected = sel.selected,
                               !.applied = c.applied],
             rng |-> [np |-> c.np, py |-> c.py]]
        Applied(world, sel, c) == Aged(world, sel, c, check_events(c.p, world, r.person))
        \* apply_actions(person, world, personality, actions): the four
        \* arguments fill the first four parameters
        Selected(world, sel) ==
            IF sel.spins
            THEN [run |-> [r EXCEPT !.pc = "spinning", !.world = world],
                  rng |-> [g EXCEPT !.py = py1]]
            ELSE Applied(world, sel,
                         apply_actions([p |-> r.person, np |-> g.np, py |-> py1,
                                        applied |-> <<>>],
                                       world, r.personality, [list |-> sel.selected],
                                       None, None, None))
        Updated(world) ==
            Selected(world, select_actions(r.person, world, r.personality,
                                           year_actions_of(r.user_actions, r.person.age)))
    IN  Updated(WorldState_update(r.world, r.birth.birth_year, g.py))

\* one iteration of the loop of LifeSimulatorV2.simulate
Year_v2(r, g) ==
    LET by == r.birth.birth_year
        py1 == RngNth(g.py, 8)
        age == r.person.age + 1
        \* the end of the iteration
        Aged(bw3, cm1, world_adapter, sel, c, ev) ==
            [run |-> [r EXCEPT !.world = world_adapter,
                               !.base_world = bw3,
                               !.country_model = IF r.cm_alias
                                                 THEN [cm1 EXCEPT !.base_world = bw3]
                                                 ELSE cm1,
                               !.previous_state = r.person,
                               !.person = [ev.person EXCEPT !.age = @ + 1],
                               !.detected_events = @ \o ev.new_events,
                               !.selected = sel.selected,
                               !.applied = c.applied],
             rng |-> [np |-> c.np, py |-> c.py]]
        Applied(bw2, cm1, world_adapter, sel, c) ==
            Aged([bw2 EXCEPT !.year = by + age], cm1, world_adapter, sel, c,
                 check_events(c.p, world_adapter, r.person))
        Selected(bw2, cm1, world_adapter, sel) ==
            IF sel.spins
            THEN [run |-> [r EXCEPT !.pc = "spinning", !.world = world_adapter,
                                    !.base_world = bw2, !.country_model = cm1],
                  rng |-> [g EXCEPT !.py = py1]]
            ELSE Applied(bw2, cm1, world_adapter, sel,
                         apply_actions([p |-> r.person, np |-> g.np, py |-> py1,
                                        applied |-> <<>>],
                                       bw2, cm1, CityOf(r.city), r.personality,
                                       [list |-> sel.selected], r.birth))
        Adapted(bw2, cm1, world_adapter) ==
            Selected(bw2, cm1, world_adapter,
                     select_actions(r.person, world_adapter, r.personality,
                                    year_actions_of(r.user_actions, r.person.age)))
        CountryUpdated(bw2, cm1) ==
            Adapted(bw2, cm1, WorldState(bw2.year, bw2.economic_cycle, bw2.tech_level,
                                         get_effective_social_mobility(cm1),
                                         get_effective_inequality(cm1), 1000))
        \* country_model.update(year) updates the base world the country
        \* model holds: the simulator's own when they are one object
        BaseUpdated(bw1, cm1) ==
            CountryUpdated(IF r.cm_alias THEN cm1.base_world ELSE bw1, cm1)
        WorldUpdated(bw1) ==
            BaseUpdated(bw1,
                        ChinaCountryModel_update(
                            IF r.cm_alias THEN [r.country_model EXCEPT !.base_world = bw1]
                            ELSE r.country_model,
                            by + r.person.age, RngNth(g.py, 4)))
    IN  WorldUpdated(BaseWorldState_update(r.base_world, by, g.py))

\* LifeSimulator.simulate after its loop
Finish_v1(r, g) ==
    [run |-> [r EXCEPT !.pc = "returned",
                       !.result = [person |-> r.person, world |-> r.world,
                                   events |-> EventDicts(r.detected_events),
                                   summary |-> TRUE]],
     rng |-> g]

\* LifeSimulatorV2.simulate after its loop, and the rest of
\* simulate_china_life.  world_adapter is assigned only inside the loop:
\* reading it after a loop that never ran raises UnboundLocalError.
Finish_v2(r, g) ==
    IF r.world = None
    THEN [run |-> [r EXCEPT !.pc = "raised"], rng |-> g]
    ELSE [run |-> [r EXCEPT !.pc = "returned",
                            !.result =
                               [person |-> r.person, base_world |-> r.base_world,
                                country |-> [current_era |-> r.country_model.current_era,
                                             window_open |-> r.country_model.window_open,
                                             window_missed |-> r.country_model.window_missed],
                                city |-> r.city,
                                events |-> EventDicts(r.detected_events),
                                summary |-> TRUE,
                                family_state |-> r.family_state]],
          rng |-> g]

(***************************************************************************)
(* models/world_china.py: what ChinaLifeSimulator asks of ChinaWorldState  *)
(***************************************************************************)
\* ChinaWorldState.get_social_mobility, in bp
get_social_mobility(w) ==
    LET m1 == IF w.window_missed THEN Mul(w.era_config.social_mobility, w.mobility_multiplier)
              ELSE w.era_config.social_mobility
        m2 == IF w.city_config.mobility_threshold = "high" THEN Mul(m1, 8000)
              ELSE IF w.city_config.mobility_threshold = "low" THEN Mul(m1, 12000)
              ELSE m1
    IN  clamp(m2)

\* ChinaWorldState.get_education_return, in bp
get_education_return(w) ==
    IF w.city \in {"beijing", "shanghai"}
    THEN Mul(w.era_config.education_return, 12000)
    ELSE w.era_config.education_return

\* ChinaWorldState.get_risk_reward_ratio, in bp
get_risk_reward_ratio(w) ==
    LET combined == Mul(w.era_config.risk_reward_ratio,
                        10000 + w.city_config.risk_reward_ratio - 10000)
    IN  IF w.era = "NEW_UNCERTAINTY"
        THEN Mul(combined, 10000 - w.era_config.risk_penalty)
        ELSE combined

\* ChinaWorldState.get_property_entry_cost, in bp
get_property_entry_cost(w) ==
    IF w.era = "STRUCTURE_SOLIDIFY" THEN w.era_config.asset_entry_cost
    ELSE IF w.era = "NEW_UNCERTAINTY" THEN 8000
    ELSE 3000

\* ChinaWorldState.check_property_opportunity; the threshold is in 1/100 units
check_property_opportunity(w, person_wealth, person_age) ==
    IF person_age < 25 \/ person_age > 40 THEN FALSE
    ELSE person_wealth >= MulMoney(MulMoney(5000000,
                                            get_living_cost_multiplier(w.city_config)),
                                   10000 + get_property_entry_cost(w))

\* ChinaWorldState.apply_property_purchase: the world and the wealth after it
apply_property_purchase(w, person_wealth) ==
    LET property_cost == MulMoney(MulMoney(10000000,
                                           get_living_cost_multiplier(w.city_config)),
                                  10000 + get_property_entry_cost(w))
    IN  IF check_property_opportunity(w, person_wealth, 30) /\ person_wealth >= property_cost
        THEN [success |-> TRUE,
              world |-> [w EXCEPT !.property_owned = TRUE, !.property_value = property_cost],
              remaining |-> person_wealth - property_cost]
        ELSE [success |-> FALSE, world |-> w, remaining |-> person_wealth]

\* ChinaWorldState.get_intergenerational_advantage, in bp
get_intergenerational_advantage(w) ==
    LET advantage == IF w.property_owned THEN Min(3000, w.property_value \div 10000) ELSE 0
    IN  Min(5000, advantage + Min(2000, w.parent_assets \div 5000))

\* ChinaWorldState.get_city_modifier_for_action, in bp
ChinaWorld_get_city_modifier_for_action(w, action_type) ==
    CASE action_type = "study" ->
           10000 + (IF w.city = "beijing" THEN Mul(w.city_config.policy_bonus, 5000) ELSE 0)
      [] action_type = "work" -> 10000 + Mul(w.city_config.policy_bonus, 3000)
      [] action_type = "risk" -> w.city_config.risk_reward_ratio
      [] action_type = "relation" -> 10000 + w.city_config.stability_bonus
      [] OTHER -> 10000

\* ChinaWorldState.get_stress_modifier, in bp
ChinaWorld_get_stress_modifier(w) ==
    w.era_config.stress_factor + City_get_stress_modifier(w.city_config)

\* ChinaWorldState.initialize_family_structure(birth_year, family_wealth, rng)
initialize_family_structure(w, birth_year, family_wealth, py) ==
    LET family == generate_family_structure(birth_year, family_wealth, py)
        city_tier == IF w.city \in {"beijing", "shanghai", "shenzhen"}
                     THEN "tier1" ELSE "tier2"
    IN  [world |-> [w EXCEPT !.family_policy_state =
                                 get_policy_config(get_policy_for_year(birth_year)),
                             !.family_state = family.family_state,
                             !.competition_intensity =
                                 calculate_competition_intensity(family.family_state,
                                                                 city_tier, w.era)],
         py |-> family.py]

(***************************************************************************)
(* engine/simulator_china.py: ChinaLifeSimulator.  Its handlers work on a  *)
(* context c = [p, np, py, applied, cw]; cw is the ChinaWorldState.        *)
(***************************************************************************)
\* ChinaLifeSimulator._apply_study_china
_apply_study_china(c, personality) ==
    LET p == c.p
        base1 == Mul(Mul(Mul(p.learning_rate, 500), get_education_return(c.cw)),
                     ChinaWorld_get_city_modifier_for_action(c.cw, "study"))
        base2 == IF c.cw.era = "TURBULENCE"
                 THEN Mul(base1, 10000 - Mul(c.cw.era_config.system_shock, 5000))
                 ELSE base1
        gain == apply_noise(base2, RngNth(c.np, 1))
    IN  [c EXCEPT !.np = RngNth(c.np, 3),
                  !.p = [p EXCEPT !.education_level = @ + gain,
                                  !.skill_depth = @ + Mul(gain, 8000),
                                  !.skill_width = @ + Mul(gain, 3000),
                                  !.energy = @ - apply_noise(1000, RngNth(c.np, 2)),
                                  !.stress = @ + apply_noise(200, RngNth(c.np, 3)),
                                  !.income = IF p.age >= 18 THEN MulMoney(@, 9000) ELSE @]]

\* ChinaLifeSimulator._apply_work_china
_apply_work_china(c, personality) ==
    LET p == c.p
        skill_factor == Mul(p.skill_depth, 7000) + Mul(p.skill_width, 3000)
        education_factor == Mul(p.education_level, get_education_return(c.cw))
        base0 == (Mul(skill_factor, 5000) + Mul(education_factor, 3000)) * 10
        base1 == MulMoney(base0, ChinaWorld_get_city_modifier_for_action(c.cw, "work"))
        base2 == IF c.cw.city_config.income_ceiling = "high" THEN MulMoney(base1, 15000)
                 ELSE IF c.cw.city_config.income_ceiling = "low" THEN MulMoney(base1, 7000)
                 ELSE base1
        income == Money(Max(MulMoney(p.income, 9500),
                            apply_noise_money(base2, RngNth(c.np, 1))))
        wealth == p.wealth + MulMoney(income, 3000)
                  + MulMoney(MulMoney(income, 1000), get_intergenerational_advantage(c.cw))
        stress == p.stress + apply_noise(500 + Mul(ChinaWorld_get_stress_modifier(c.cw), 1000),
                                         RngNth(c.np, 3))
        strained == c.cw.era = "NEW_UNCERTAINTY" /\ stress > 7000
    IN  [c EXCEPT !.np = RngNth(c.np, IF strained THEN 4 ELSE 3),
                  !.p = [p EXCEPT !.income = income,
                                  !.wealth = Money(wealth),
                                  !.energy = @ - apply_noise(1500, RngNth(c.np, 2)),
                                  !.stress = stress,
                                  !.mental_health =
                                     IF strained
                                     THEN @ - apply_noise(
                                                Mul(500, c.cw.era_config.mental_health_weight),
                                                RngNth(c.np, 4))
                                     ELSE @]]

\* ChinaLifeSimulator._apply_rest_china
_apply_rest_china(c, personality) ==
    LET p == c.p
        recovery0 == apply_noise(Mul(1000, 10000 + personality.resilience), RngNth(c.np, 1))
        recovery == IF c.cw.era = "NEW_UNCERTAINTY"
                    THEN Mul(recovery0, c.cw.era_config.mental_health_weight)
                    ELSE recovery0
    IN  [c EXCEPT !.np = RngNth(c.np, 1),
                  !.p = [p EXCEPT !.energy = @ + recovery,
                                  !.stress = @ - Mul(recovery, 8000),
                                  !.health = @ + Mul(recovery, 3000),
                                  !.mental_health = @ + Mul(recovery, 2000),
                                  !.income = IF p.income > 0 THEN MulMoney(@, 9500) ELSE @]]

\* ChinaLifeSimulator._apply_move_china
_apply_move_china(c, personality) ==
    LET p == c.p
        chance0 == IF c.cw.era \in {"REFORM_EARLY", "URBAN_BOOM"} THEN 7000 ELSE 5000
        success_chance ==
            IF c.cw.city_config.mobility_threshold = "low" THEN chance0 + 2000
            ELSE IF c.cw.city_config.mobility_threshold = "high" THEN chance0 - 2000
            ELSE chance0
        py1 == RngNext(c.py)
        p1 == IF random(py1) < success_chance
              THEN [p EXCEPT !.employment_stability = @ + apply_noise(1000, RngNth(c.np, 1)),
                             !.income = Money(MulMoney(@, apply_noise(12000, RngNth(c.np, 2)))),
                             !.social_capital = @ + apply_noise(500, RngNth(c.np, 3))]
              ELSE [p EXCEPT !.employment_stability = @ - apply_noise(1000, RngNth(c.np, 1)),
                             !.income = MulMoney(@, apply_noise(8000, RngNth(c.np, 2))),
                             !.stress = @ + apply_noise(1000, RngNth(c.np, 3))]
    IN  [c EXCEPT !.np = RngNth(c.np, 6),
                  !.py = py1,
                  !.p = [p1 EXCEPT !.wealth = Money(@ - apply_noise_money(50000, RngNth(c.np, 4))),
                                   !.energy = @ - apply_noise(2000, RngNth(c.np, 5)),
                                   !.stress = @ + apply_noise(500, RngNth(c.np, 6))]]

\* ChinaLifeSimulator._apply_risk_china
_apply_risk_china(c, personality) ==
    LET p == c.p
        shenzhen == c.cw.city = "shenzhen"
        py1 == IF shenzhen THEN RngNext(c.py) ELSE c.py
        base0 == IF shenzhen THEN 4000 + Mul(random(py1), 4000) ELSE 5000
        base1 == IF p.age > c.cw.city_config.age_penalty_age THEN Mul(base0, 7000) ELSE base0
        base2 == IF c.cw.window_open THEN Mul(base1, 13000) ELSE base1
        success_chance == Min(9500, Mul(base2, get_risk_reward_ratio(c.cw)))
        py2 == RngNext(py1)
        loss_mult == IF c.cw.era = "NEW_UNCERTAINTY"
                     THEN 10000 + c.cw.era_config.risk_penalty
                     ELSE 10000
        p1 == IF random(py2) < success_chance
              THEN [p EXCEPT !.wealth = Money(@ + apply_noise_money(
                                                     Money(500000 + MulMoney(@, 5000)),
                                                     RngNth(c.np, 1))),
                             !.income = Money(MulMoney(@, apply_noise(15000, RngNth(c.np, 2)))),
                             !.social_capital = @ + apply_noise(1000, RngNth(c.np, 3))]
              ELSE [p EXCEPT !.wealth = Money(@ - apply_noise_money(
                                                     MulMoney(MulMoney(@, 3000), loss_mult),
                                                     RngNth(c.np, 1))),
                             !.stress = @ + apply_noise(1500, RngNth(c.np, 2)),
                             !.employment_stability = @ - apply_noise(1000, RngNth(c.np, 3))]
    IN  [c EXCEPT !.np = RngNth(c.np, 5),
                  !.py = py2,
                  !.p = [p1 EXCEPT !.energy = @ - apply_noise(2000, RngNth(c.np, 4)),
                                   !.stress = @ + apply_noise(1000, RngNth(c.np, 5))]]

\* ChinaLifeSimulator._apply_relation_china
_apply_relation_china(c, personality) ==
    LET p == c.p
        social_gain ==
            Mul(apply_noise(Mul(1000, 10000 + personality.social_drive), RngNth(c.np, 1)),
                ChinaWorld_get_city_modifier_for_action(c.cw, "relation"))
    IN  [c EXCEPT !.np = RngNth(c.np, 3),
                  !.p = [p EXCEPT !.social_capital = @ + social_gain,
                                  !.loneliness = @ - Mul(social_gain, 8000),
                                  !.mental_health = @ + Mul(social_gain, 3000),
                                  !.energy = @ - apply_noise(500, RngNth(c.np, 2)),
                                  !.wealth = Money(@ - apply_noise_money(10000, RngNth(c.np, 3)))]]

\* ChinaLifeSimulator._apply_aging_china
_apply_aging_china(c) ==
    LET p == c.p
        k1 == IF p.age > 40 THEN 1 ELSE 0
        k2 == IF p.age > 60 THEN k1 + 2 ELSE k1
        health1 == IF p.age > 40
                   THEN p.health - apply_noise((p.age - 40) * 20, RngNth(c.np, 1))
                   ELSE p.health
        health2 == IF p.age > 60
                   THEN health1 - apply_noise(100, RngNth(c.np, k1 + 1))
                   ELSE health1
        turbulence == c.cw.era = "TURBULENCE"
        py1 == IF turbulence THEN RngNext(c.py) ELSE c.py
        struck == turbulence /\ random(py1) < Mul(c.cw.era_config.health_risk, 1000)
        k3 == IF struck THEN k2 + 1 ELSE k2
        calm == p.stress < 5000
    IN  [c EXCEPT !.np = RngNth(c.np, IF calm THEN k3 + 1 ELSE k3),
                  !.py = py1,
                  !.p = [p EXCEPT !.health = IF struck
                                             THEN health2 - apply_noise(1000, RngNth(c.np, k3))
                                             ELSE health2,
                                  !.energy = IF p.age > 60
                                             THEN @ - apply_noise(100, RngNth(c.np, k1 + 2))
                                             ELSE @,
                                  !.learning_rate = IF p.age > 30 THEN Mul(@, 9950) ELSE @,
                                  !.stress = IF calm
                                             THEN @ + apply_noise(100, RngNth(c.np, k3 + 1))
                                             ELSE @]]

\* the loop `for action in actions` of _apply_actions_china
RECURSIVE ApplyEachChina(_, _, _)
ApplyEachChina(c, personality, actions) ==
    IF actions = <<>> THEN c
    ELSE LET action == Head(actions)
             c1 == CASE action = "STUDY" -> _apply_study_china(c, personality)
                     [] action = "WORK" -> _apply_work_china(c, personality)
                     [] action = "REST" -> _apply_rest_china(c, personality)
                     [] action = "MOVE" -> _apply_move_china(c, personality)
                     [] action = "RISK" -> _apply_risk_china(c, personality)
                     [] action = "RELATION" -> _apply_relation_china(c, personality)
                     [] OTHER -> c
         IN  ApplyEachChina(
               [c1 EXCEPT !.applied = Append(@, [action |-> action,
                                                 personality |-> personality])],
               personality, Tail(actions))

\* ChinaLifeSimulator._apply_actions_china
_apply_actions_china(c, personality, actions) ==
    LET Clamped(c2) == [c2 EXCEPT !.p = clamp_values(c2.p)]
        Purchased(c1, purchase) ==
            IF check_property_opportunity(c1.cw, c1.p.wealth, c1.p.age) /\ purchase.success
            THEN [c1 EXCEPT !.cw = purchase.world, !.p.wealth = purchase.remaining]
            ELSE c1
        Property(c1) == Purchased(c1, apply_property_purchase(c1.cw, c1.p.wealth))
    IN  Clamped(Property(_apply_aging_china(ApplyEachChina(c, personality, actions))))

\* the city tier ChinaLifeSimulator.simulate passes to the family engine
city_tier_of(city) ==
    IF city \in {"beijing", "shanghai", "shenzhen"} THEN "tier1" ELSE "tier2"

\* ChinaLifeSimulator.simulate up to its loop (parent_assets = 0)
Begin_china(r, g) ==
    LET Started(init, ctx1) ==
            [run |-> [r EXCEPT !.pc = "running",
                               !.person = ctx1.person,
                               !.personality = ctx1.personality,
                               !.china_world = [init.world EXCEPT
                                                   !.family_state = ctx1.family_state]],
             rng |-> [g EXCEPT !.py = init.py]]
        OnlyChild(init, ctx) ==
            Started(init, IF init.world.family_state # None
                          THEN apply_only_child_effects(ctx, ctx.person.age,
                                                        city_tier_of(r.city))
                          ELSE ctx)
        Family(init) ==
            OnlyChild(init, [person |-> _initialize_person(r.birth),
                             personality |-> r.personality,
                             family_state |-> init.world.family_state])
    IN  Family(initialize_family_structure(
                   ChinaWorldState(r.birth.birth_year, r.city),
                   r.birth.birth_year, r.birth.family_class * 1000, g.py))

\* one iteration of the loop of ChinaLifeSimulator.simulate (the call of
\* check_events is commented out in the source)
Year_china(r, g) ==
    LET by == r.birth.birth_year
        age == r.person.age + 1
        new_policy == get_policy_for_year(by + age)
        \* the end of the iteration
        Aged(world_adapter, sel, c, ctx1) ==
            [run |-> [r EXCEPT
                        !.world = world_adapter,
                        !.china_world =
                           [c.cw EXCEPT !.year = by + age,
                                        !.family_policy_state =
                                           IF @ = None \/ @.policy # new_policy
                                           THEN get_policy_config(new_policy) ELSE @,
                                        !.family_state = ctx1.family_state],
                        !.previous_state = r.person,
                        !.person = ctx1.person,
                        !.personality = ctx1.personality,
                        !.selected = sel.selected,
                        !.applied = c.applied],
             rng |-> [np |-> c.np, py |-> c.py]]
        \* the yearly only-child effects
        OnlyChild(world_adapter, sel, c, ctx) ==
            Aged(world_adapter, sel, c,
                 IF ctx.family_state # None
                 THEN apply_only_child_effects(ctx, age, city_tier_of(r.city))
                 ELSE ctx)
        \* the caregiver burden and its stress
        Burden(world_adapter, sel, c, family1) ==
            OnlyChild(world_adapter, sel, c,
                      [person |-> IF c.cw.family_state # None
                                  THEN [c.p EXCEPT
                                          !.age = @ + 1,
                                          !.stress = Min(10000,
                                                         @ + Mul(family1.caregiver_burden, 1000))]
                                  ELSE [c.p EXCEPT !.age = @ + 1],
                       personality |-> r.personality,
                       family_state |-> family1])
        Applied(world_adapter, sel, c) ==
            Burden(world_adapter, sel, c,
                   IF c.cw.family_state # None
                   THEN update_caregiver_burden(c.cw.family_state, age)
                   ELSE c.cw.family_state)
        Selected(cw1, world_adapter, sel) ==
            IF sel.spins
            THEN [run |-> [r EXCEPT !.pc = "spinning", !.china_world = cw1,
                                    !.world = world_adapter],
                  rng |-> g]
            ELSE Applied(world_adapter, sel,
                         _apply_actions_china([p |-> r.person, np |-> g.np, py |-> g.py,
                                               applied |-> <<>>, cw |-> cw1],
                                              r.personality, sel.selected))
        Adapted(cw1, world_adapter) ==
            Selected(cw1, world_adapter,
                     select_actions(r.person, world_adapter, r.personality,
                                    year_actions_of(r.user_actions, r.person.age)))
        Updated(cw1) ==
            Adapted(cw1, WorldState(cw1.year, 0, 5000, get_social_mobility(cw1),
                                    cw1.era_config.inequality, 1000))
    IN  Updated(ChinaWorldState_update(r.china_world))

\* ChinaLifeSimulator.simulate after its loop
Finish_china(r, g) ==
    [run |-> [r EXCEPT !.pc = "returned",
                       !.result = [person |-> r.person,
                                   china_world |-> [year |-> r.china_world.year,
                                                    era |-> r.china_world.era,
                                                    window_missed |-> r.china_world.window_missed,
                                                    family_state |-> r.china_world.family_state],
                                   events |-> EventDicts(r.detected_events),
                                   summary |-> TRUE]],
     rng |-> g]

\* the three parts of simulate, by simulator
BeginOp(r, g) ==
    CASE r.kind = "v1" -> Begin_v1(r, g)
      [] r.kind = "china" -> Begin_china(r, g)
      [] OTHER -> Begin_v2(r, g)

YearOp(r, g) ==
    CASE r.kind = "v1" -> Year_v1(r, g)
      [] r.kind = "china" -> Year_china(r, g)
      [] OTHER -> Year_v2(r, g)

FinishOp(r, g) ==
    CASE r.kind = "v1" -> Finish_v1(r, g)
      [] r.kind = "china" -> Finish_china(r, g)
      [] OTHER -> Finish_v2(r, g)

(***************************************************************************)
(* The inputs of a run                                                     *)
(***************************************************************************)
\* largest max_age a run is given
MaxAge == 80

\* BirthProfile(birth_year, region, family_class, parents_education,
\* family_stability, genetic_health, cognitive_potential), scalars in bp
BirthProfile(birth_year, family_class, parents_education, family_stability, genetic_health, cognitive_potential) ==
    [birth_year |-> birth_year, family_class |-> family_class,
     parents_education |-> parents_education, family_stability |-> family_stability,
     genetic_health |-> genetic_health, cognitive_potential |-> cognitive_potential]

BirthProfiles ==
    {BirthProfile(y, 5000, 5000, 5000, 8000, 5000) : y \in {1950, 1985}}
    \cup {BirthProfile(y, 10000, 10000, 10000, 10000, 10000) : y \in {1950, 1985}}
    \cup {BirthProfile(1985, 5000, 5000, 5000, 0, 5000)}

\* Personality(openness, conscientiousness, risk_preference, social_drive,
\* resilience), in bp
Personality(openness, conscientiousness, risk_preference, social_drive, resilience) ==
    [openness |-> openness, conscientiousness |-> conscientiousness,
     risk_preference |-> risk_preference, social_drive |-> social_drive,
     resilience |-> resilience]

Personalities ==
    {Personality(5000, 5000, 5000, 5000, 5000),
     Personality(5000, 8000, 3000, 3000, 2000),
     Personality(5000, 5000, 3000, 8000, 5000),
     Personality(8000, 5000, 8000, 5000, 3000)}

\* user_actions: none, or choices for the first years of life (an empty
\* list for the fourth)
UserActions ==
    {None,
     [dict |-> (0 :> <<"STUDY", "REST">>) @@ (1 :> <<"REST", "STUDY", "MOVE">>)
               @@ (2 :> <<"WORK">>) @@ (3 :> <<>>)]}

\* a run before anything of it has executed
NewRun(kind, birth, personality, city, max_age, seeded, seed, user_actions, cm_none) ==
    [kind |-> kind, birth |-> birth, personality |-> personality, city |-> city,
     requested_city |-> city, max_age |-> max_age, seeded |-> seeded, seed |-> seed,
     user_actions |-> user_actions, cm_none |-> cm_none,
     pc |-> "new", person |-> None, previous_state |-> None, world |-> None,
     base_world |-> None, country_model |-> None, cm_alias |-> FALSE,
     china_world |-> None, family_state |-> None, detected_events |-> <<>>,
     selected |-> <<>>, applied |-> <<>>, result |-> None]

\* the run of test_simulation
TestRun ==
    NewRun("v1", BirthProfile(1980, 6000, 7000, 8000, 7500, 6500),
           Personality(7000, 8000, 5000, 6000, 7000), "none", MaxAge, TRUE, 42, None, FALSE)

\* a run whose caller supplies a candidate list for every year: Rest up to
\* age 56, Work and Risk from then on
ScheduledRun ==
    NewRun("v2", BirthProfile(1985, 5000, 5000, 5000, 8000, 5000),
           Personality(5000, 8000, 3000, 3000, 2000), "beijing", MaxAge, TRUE, 7,
           [dict |-> [y \in 0..(MaxAge - 1) |->
                        IF y < 57 THEN <<"REST">> ELSE <<"WORK", "RISK">>]],
           FALSE)

\* the runs of the single-run specification
SingleRuns ==
    {NewRun(kind, birth, personality, city, max_age, seed # 0, seed, user_actions, FALSE) :
       kind \in {"v2", "china_life", "china"}, birth \in BirthProfiles,
       personality \in Personalities, city \in {"beijing", "shenzhen"},
       max_age \in {0, MaxAge}, seed \in {0, 42}, user_actions \in UserActions}
    \cup
    {NewRun("v1", birth, personality, "none", max_age, seed # 0, seed, user_actions, FALSE) :
       birth \in BirthProfiles, personality \in Personalities,
       max_age \in {0, MaxAge}, seed \in {0, 42}, user_actions \in UserActions}
    \cup
    {NewRun("china_life", BirthProfile(1985, 5000, 5000, 5000, 8000, 5000),
            Personality(5000, 5000, 5000, 5000, 5000), "atlantis", MaxAge, TRUE, 42,
            None, FALSE)}
    \cup {TestRun, ScheduledRun}
    \cup
    {NewRun("v2", BirthProfile(1985, 5000, 5000, 5000, 8000, 5000), personality, city,
            MaxAge, TRUE, 42, None, TRUE) :
       personality \in Personalities, city \in {"beijing", "shenzhen"}}

\* the generator states a process can be in before anything seeds them
UnseededRng == {[py |-> 1, np |-> 2], [py |-> 31337, np |-> 4242]}

(***************************************************************************)
(* The actions of a run                                                    *)
(***************************************************************************)
\* run i may take a step: sequential runs, and the calls of simulate on one
\* simulator, start one after the other; of
\* interleaved runs, the first half execute alone, one after the other, and
\* the runs of the second half start when these have ended
Scheduled(i) ==
    LET Ended(n) == \A j \in 1..n : runs[j].pc \in {"returned", "raised", "spinning"}
    IN  CASE mode \in {"sequential", "reused"} -> Ended(i - 1)
          [] mode = "interleaved" -> Ended(Min(i - 1, Len(runs) \div 2))
          [] OTHER -> TRUE

\* the step `op` of run i
StepRun(i, out) ==
    /\ runs' = [runs EXCEPT ![i] = out.run]
    /\ rng' = out.rng
    /\ UNCHANGED <<era_obj, cm, cw, de_in, de_out, era_year, mode>>

Prepare(i) ==
    /\ Scheduled(i)
    /\ runs[i].pc = "new"
    /\ runs[i].kind \in {"v2", "china_life"}
    /\ StepRun(i, PrepareOp(runs[i], rng))

Construct(i) ==
    /\ Scheduled(i)
    /\ mode = "reused" => i = 1
    /\ \/ runs[i].pc = "new" /\ runs[i].kind \in {"v1", "china"}
       \/ runs[i].pc = "prepared"
    /\ StepRun(i, ConstructOp(runs[i], rng))

Begin(i) ==
    /\ Scheduled(i)
    /\ runs[i].pc = "constructed"
    /\ StepRun(i, BeginOp(runs[i], rng))

YearStep(i) ==
    /\ Scheduled(i)
    /\ runs[i].pc = "running"
    /\ LoopCondition(runs[i])
    /\ StepRun(i, YearOp(runs[i], rng))

Finish(i) ==
    /\ Scheduled(i)
    /\ runs[i].pc = "running"
    /\ ~LoopCondition(runs[i])
    /\ StepRun(i, FinishOp(runs[i], rng))

Next ==
    \/ \E i \in DOMAIN runs : Prepare(i)
    \/ \E i \in DOMAIN runs : Construct(i)
    \/ \E i \in DOMAIN runs : Begin(i)
    \/ \E i \in DOMAIN runs : YearStep(i)
    \/ \E i \in DOMAIN runs : Finish(i)

\* the variables the simulation specifications do not use
Idle ==
    /\ era_obj = "none"
    /\ cm = ChinaCountryModel(BaseWorldState(FirstYear, 1949), FirstYear)
    /\ cw = ChinaWorldState(FirstYear, "beijing")
    /\ era_year = [first |-> FirstYear, last |-> FirstYear, updates |-> 0]
    /\ de_in = NoCall
    /\ de_out = [returned |-> FALSE, value |-> <<>>]

\* one run
Init ==
    /\ Idle
    /\ mode = "single"
    /\ \E r \in SingleRuns : runs = <<r>>
    /\ rng \in UnseededRng

Spec == Init /\ [][Next]_vars

(***************************************************************************)
(* Properties of a run (Spec)                                              *)
(***************************************************************************)
\* C1: in every simulator, at the end of every completed year (after the
\* clamp, the event impacts and the post-action family effects) each of the
\* bounded fields of the person lies in [0,1].
C1_BoundedAfterYear ==
    \A i \in DOMAIN runs :
        (runs[i].pc \in {"running", "returned"} /\ runs[i].person # None
           /\ runs[i].person.age > 0)
        => \A f \in BoundedFields : runs[i].person[f] \in 0..10000

\* C2: LifeSimulatorV2.simulate terminates: every loop iteration completes,
\* the slot filling of the auto-selection included, so control is never in
\* a loop it does not leave.
C2_V2Terminates ==
    \A i \in DOMAIN runs :
        runs[i].kind \in {"v2", "china_life"} => runs[i].pc # "spinning"

\* C3: in every loop iteration of LifeSimulator and of LifeSimulatorV2, the
\* handlers the Transition Engine executes are those of the actions
\* select_actions returned for the year, in the same order, with the year's
\* personality.
C3_HandlersAreSelection ==
    \A i \in DOMAIN runs :
        runs[i].kind \in {"v1", "v2", "china_life"}
        => runs[i].applied =
             [k \in 1..Len(runs[i].selected) |->
                [action |-> runs[i].selected[k], personality |-> runs[i].personality]]

C9_NeverRaises ==
    \A i \in DOMAIN runs :
        /\ runs[i].pc # "raised"
        /\ (runs[i].pc = "returned"
              /\ (runs[i].max_age = 0 \/ runs[i].birth.genetic_health = 0))
           => /\ runs[i].result.person.age = 0
              /\ runs[i].result.events = <<>>
              /\ runs[i].result.summary

\* C11: when the caller supplies a candidate list for a year (an empty one
\* included), the selection of LifeSimulator and LifeSimulatorV2 for that
\* year is the admissible actions of the list, in list order, cut to
\* max_actions_per_year; no action outside the list is selected.
C11_OnlySuppliedActions ==
    \A i \in DOMAIN runs :
        (runs[i].kind \in {"v1", "v2", "china_life"}
           /\ runs[i].pc \in {"running", "returned"}
           /\ runs[i].person # None /\ runs[i].person.age > 0
           /\ runs[i].user_actions # None
           /\ (runs[i].person.age - 1) \in DOMAIN runs[i].user_actions.dict)
        => LET list == runs[i].user_actions.dict[runs[i].person.age - 1]
               available == get_available_actions(runs[i].previous_state,
                                                  runs[i].world, runs[i].personality)
               valid == SelectSeq(list, LAMBDA a : In(a, available))
           IN  runs[i].selected = SubSeq(valid, 1, Min(max_actions_per_year, Len(valid)))

\* C17: in every run the age is 0 when the person is created, grows by
\* exactly 1 in each completed iteration of the loop, is changed by no other
\* step, and never exceeds max_age (every run has max_age >= 0).
C17_AgeByLoopOnly ==
    [][\A i \in DOMAIN runs :
         LET a == runs[i]
             b == runs'[i]
         IN  b.person # None
             => /\ b.person.age \in 0..b.max_age
                /\ b.person.age = IF a.person = None THEN 0
                                  ELSE IF a.pc = "running" /\ b.pc = "running"
                                       THEN a.person.age + 1
                                       ELSE a.person.age]_vars

C17_Witness ==
    \E i \in DOMAIN runs :
        /\ runs[i].pc = "returned"
        /\ runs[i].kind = "v2"
        /\ runs[i].max_age = MaxAge
        /\ runs[i].person.age = MaxAge
        /\ Len(runs[i].detected_events) > 0

\* C18: the run of test_simulation (birth profile 1980 / 0.6 / 0.7 / 0.8 /
\* 0.75 / 0.65, personality 0.7 / 0.8 / 0.5 / 0.6 / 0.7, max age 80, seed 42)
\* keeps health above 0 in every year before age 80 and returns at age 80.
C18_TestRunReachesEighty ==
    \A i \in DOMAIN runs :
        ([runs[i] EXCEPT !.pc = "new", !.person = None, !.previous_state = None,
                         !.world = None, !.detected_events = <<>>, !.selected = <<>>,
                         !.applied = <<>>, !.result = None] = TestRun
           /\ runs[i].person # None)
        => /\ runs[i].person.age < MaxAge => runs[i].person.health > 0
           /\ runs[i].pc = "returned" => runs[i].person.age = MaxAge

\* C22: in a LifeSimulatorV2 run the Base World the Transition Engine and
\* the world adapter read has been advanced by exactly one year in the
\* iteration, and so has the Base World the country model wraps, also when
\* the two are one object.
C22_OneUpdatePerIteration ==
    [][\A i \in DOMAIN runs :
         LET a == runs[i]
             b == runs'[i]
         IN  (a.kind \in {"v2", "china_life"} /\ a.pc = "running" /\ b.pc = "running"
                /\ b.person.age = a.person.age + 1)
             => /\ b.world.year = a.base_world.year + 1
                /\ ~a.cm_alias
                   => b.country_model.base_world.year = a.country_model.base_world.year + 1]_vars

\* C24: in a ChinaLifeSimulator run the personality is changed by nothing
\* but the only-child adjustment (conscientiousness + 0.1 up to 1, social
\* drive and resilience - 0.1 down to 0, for an only child, at the start and
\* at the end of a year), and it changes a bounded number of times whatever
\* the length of the run: never after the tenth year.
C24_PersonalityChangesBounded ==
    [][\A i \in DOMAIN runs :
         LET a == runs[i]
             b == runs'[i]
             adjusted == [a.personality EXCEPT !.conscientiousness = Min(10000, @ + 1000),
                                               !.social_drive = Max(0, @ - 1000),
                                               !.resilience = Max(0, @ - 1000)]
         IN  (a.kind = "china" /\ b.personality # a.personality)
             => /\ b.personality = adjusted
                /\ b.china_world.family_state.is_only_child
                /\ \/ a.pc = "constructed" /\ b.pc = "running"
                   \/ /\ a.pc = "running" /\ b.pc = "running"
                      /\ b.person.age = a.person.age + 1
                      /\ a.person.age < 10]_vars

\* an only child's run of 80 years: the three traits stand at their bounds,
\* openness is as it was given
C24_Witness ==
    \E i \in DOMAIN runs :
        /\ runs[i].kind = "china"
        /\ runs[i].pc = "returned"
        /\ runs[i].person.age = MaxAge
        /\ runs[i].china_world.family_state.is_only_child
        /\ runs[i].personality.conscientiousness = 10000
        /\ runs[i].personality.social_drive = 0
        /\ runs[i].personality.resilience = 0
        /\ runs[i].personality.openness = 8000

\* C29: every event recorded in a LifeSimulator or LifeSimulatorV2 run
\* carries year = birth_year + age, age being the person's age in the
\* iteration that detected it.
C29_EventYearIsBirthYearPlusAge ==
    \A i \in DOMAIN runs :
        runs[i].kind \in {"v1", "v2"}
        => \A k \in DOMAIN runs[i].detected_events :
              runs[i].detected_events[k].year
                = runs[i].birth.birth_year + runs[i].detected_events[k].age

\* C30: in a LifeSimulatorV2 run the Base World keeps the base year 1949 it
\* was constructed with: after the updates of an iteration its long-cycle
\* phase is ((year - 1949) mod 60) / 60 for the year the updates left it at
\* (the year the world adapter copied).
C30_BaseYearKept ==
    \A i \in DOMAIN runs :
        (runs[i].kind = "v2" /\ runs[i].pc \in {"running", "returned"}
           /\ runs[i].person.age >= 1)
        => /\ runs[i].base_world.base_year = 1949
           /\ runs[i].base_world.kondratiev_phase
                = kondratiev_phase_of(runs[i].world.year, 1949)

\* C26: whenever health is at or above 0.3 at the end of one completed year
\* and below 0.3 at the end of the next, the event log holds a Health Crisis
\* with the age of that later year.
C26_HealthCrisisLogged ==
    [][\A i \in DOMAIN runs :
         LET a == runs[i]
             b == runs'[i]
         IN  (/\ a.kind \in {"v1", "v2", "china_life"}
              /\ a.pc = "running" /\ b.pc = "running"
              /\ a.person.age >= 1
              /\ b.person.age = a.person.age + 1
              /\ a.person.health >= 3000
              /\ b.person.health < 3000)
             => \E k \in 1..Len(b.detected_events) :
                   /\ b.detected_events[k].title = "Health Crisis"
                   /\ b.detected_events[k].age = a.person.age]_vars

\* C15: a requested city that has no entry in the static city table is
\* rejected when the environment is constructed: the run raises before it
\* has a city, and no default entry replaces it.
C15_UnknownCityRejected ==
    \A i \in DOMAIN runs :
        (runs[i].kind = "china_life"
           /\ runs[i].requested_city \notin {"beijing", "shanghai", "shenzhen", "guangzhou"})
        => runs[i].pc \in {"new", "raised"}

(***************************************************************************)
(* SpecCall: one call of one function of the engine on drawn arguments.    *)
(* de_in.call names the function; de_out.returned stays FALSE for a call   *)
(* that never returns.                                                     *)
(***************************************************************************)
\* select_actions on persons and personalities on both sides of the
\* thresholds _auto_select and get_available_actions read, with no candidate
\* list, an empty one, or a list of three actions, once with one action
\* named twice
SelectCalls ==
    {[call |-> "select_actions",
      person |-> [age |-> age, education_level |-> education_level,
                  energy |-> energy, health |-> health, stress |-> stress,
                  employment_stability |-> employment_stability,
                  wealth |-> 0, loneliness |-> loneliness],
      world |-> [economic_cycle |-> economic_cycle],
      personality |-> [conscientiousness |-> conscientiousness,
                       risk_preference |-> risk_preference,
                       social_drive |-> social_drive],
      user_choices |-> user_choices] :
        age \in {10, 25, 55, 70},
        education_level \in {7999, 8000},
        energy \in {2000, 5000},
        health \in {1500, 2999, 3000, 6000},
        stress \in {4000, 7000, 7001},
        employment_stability \in {4000, 6000},
        loneliness \in {3000, 5000},
        conscientiousness \in {7000, 7001},
        risk_preference \in {5000, 7000, 7001},
        social_drive \in {5000, 7000, 7001},
        economic_cycle \in {0, 1},
        user_choices \in {None, [list |-> <<>>], [list |-> <<"WORK", "REST", "RISK">>],
                          [list |-> <<"WORK", "WORK", "REST">>]}}

\* the person score and the Pareto multipliers as the Move and Risk handlers
\* compute them, on worlds and persons on both sides of the elite threshold
ParetoCalls ==
    {[call |-> "pareto",
      person |-> [education_level |-> education_level, skill_depth |-> skill_depth,
                  social_capital |-> social_capital, wealth |-> wealth],
      world |-> [inequality |-> inequality, social_mobility |-> social_mobility],
      birth |-> [family_class |-> family_class]] :
        education_level \in {0, 5000, 10000},
        skill_depth \in {0, 5000, 10000},
        social_capital \in {3000, 4995, 5000, 10000},
        wealth \in {0, 10000000},
        inequality \in {0, 5000, 10000},
        social_mobility \in {5000, 10000},
        family_class \in {0, 5000, 10000}}

\* BirthProfile(...) and Personality(...) on scalars inside and outside [0,1]
ConstructCalls ==
    {[call |-> call, scalars |-> <<a, b, c, d, e>>] :
        call \in {"BirthProfile", "Personality"},
        a \in {-1, 5000, 10001}, b \in {0, 15000}, c \in {5000, 10001},
        d \in {-5000, 10000}, e \in {5000, 20000}}
    \cup {[call |-> call, scalars |-> <<5000, 5000, 5000, 5000, 5000>>] :
            call \in {"BirthProfile", "Personality"}}

\* apply_actions on persons of two ages, of a middling or a high education,
\* skill and social capital, without or with a country model (one
\* constructed in the birth year and updated to the current year), a city and
\* a birth profile, on lists that hold a value that is no Action
\* ("NAP", "") among known actions, and on lists of known actions only
ApplyCalls ==
    {[call |-> "apply_actions",
      person |-> [_initialize_person(birth) EXCEPT
                     !.age = age, !.income = 300000,
                     !.skill_depth = IF accomplished THEN 9000 ELSE 4000,
                     !.education_level = IF accomplished THEN 9000 ELSE @,
                     !.social_capital = IF accomplished THEN 9000 ELSE @],
      base_world |-> BaseWorldState(birth.birth_year + age, 1950),
      country_model |-> IF city # "none"
                        THEN ChinaCountryModel_update(
                               ChinaCountryModel(BaseWorldState(birth.birth_year, 1950),
                                                 birth.birth_year),
                               birth.birth_year + age, set_seed(42).py)
                        ELSE None,
      city |-> CityOf(city),
      personality |-> personality,
      actions |-> actions,
      birth_profile |-> IF city # "none" THEN birth ELSE None] :
        birth \in BirthProfiles, age \in {25, 45}, accomplished \in BOOLEAN,
        city \in {"none", "shanghai", "shenzhen"},
        personality \in Personalities,
        actions \in {<<"NAP">>, <<"STUDY", "NAP", "WORK">>, <<"", "RISK", "MOVE">>,
                     <<"REST", "RELATION", "NAP">>, <<"WORK", "RISK">>, <<>>,
                     <<"RISK">>, <<"MOVE">>}}

\* check_events on persons whose health is on either side of 0.3, after a
\* year that began with health 0.3 or had no snapshot, with a wealth above
\* 2000, below 2000, zero and negative (money in 1/100)
CheckCalls ==
    {[call |-> "check_events",
      person |-> [_initialize_person(birth) EXCEPT !.age = 50, !.health = health,
                                                   !.wealth = wealth,
                                                   !.skill_depth = skill_depth,
                                                   !.employment_stability = 7000],
      world |-> WorldState(birth.birth_year + 50, economic_cycle, 5000, 5000, 5000, 1000),
      previous_state |-> IF snapshot
                         THEN [_initialize_person(birth) EXCEPT !.age = 50, !.health = 3000,
                                                                !.wealth = wealth]
                         ELSE None] :
        birth \in BirthProfiles, health \in {2999, 3000}, snapshot \in BOOLEAN,
        wealth \in {-30000, 0, 50000, 199999, 200000, 600000},
        skill_depth \in {3000, 8000}, economic_cycle \in {-6000, 2000}}

CallInit ==
    /\ era_obj = "none"
    /\ cm = ChinaCountryModel(BaseWorldState(FirstYear, 1949), FirstYear)
    /\ cw = ChinaWorldState(FirstYear, "beijing")
    /\ era_year = [first |-> FirstYear, last |-> FirstYear, updates |-> 0]
    /\ de_out = [returned |-> FALSE, value |-> <<>>]
    /\ de_in \in SelectCalls \cup ParetoCalls \cup ConstructCalls \cup ApplyCalls
                \cup CheckCalls
    /\ runs = <<>>
    /\ mode = "none"
    /\ rng = set_seed(42)

\* DecisionEngine.select_actions
SelectActions ==
    /\ ~de_out.returned
    /\ de_in.call = "select_actions"
    /\ LET Called(sel) == de_out' = [returned |-> ~sel.spins, value |-> sel.selected]
       IN  Called(select_actions(de_in.person, de_in.world, de_in.personality,
                                 de_in.user_choices))
    /\ UNCHANGED <<era_obj, cm, cw, de_in, era_year, runs, mode, rng>>

\* the first lines of _apply_move and _apply_risk, and the wealth multiplier
\* they take for the score they computed
ParetoMultipliers ==
    /\ ~de_out.returned
    /\ de_in.call = "pareto"
    /\ LET Scored(person_score) ==
               de_out' = [returned |-> TRUE,
                          value |-> [person_score |-> person_score,
                                     opportunity_mult |->
                                        get_opportunity_multiplier(de_in.world, person_score),
                                     wealth_mult |->
                                        get_wealth_multiplier(de_in.world, person_score)]]
       IN  Scored(person_score_of(de_in.world, de_in.person, de_in.birth))
    /\ UNCHANGED <<era_obj, cm, cw, de_in, era_year, runs, mode, rng>>

\* the dataclass constructors of models/person.py, as app.py calls them
ConstructProfile ==
    /\ ~de_out.returned
    /\ de_in.call \in {"BirthProfile", "Personality"}
    /\ de_out' = [returned |-> TRUE,
                  value |-> IF de_in.call = "BirthProfile"
                            THEN BirthProfile(1990, de_in.scalars[1], de_in.scalars[2],
                                              de_in.scalars[3], de_in.scalars[4],
                                              de_in.scalars[5])
                            ELSE Personality(de_in.scalars[1], de_in.scalars[2],
                                             de_in.scalars[3], de_in.scalars[4],
                                             de_in.scalars[5])]
    /\ UNCHANGED <<era_obj, cm, cw, de_in, era_year, runs, mode, rng>>

\* TransitionEngine.apply_actions; the value is the person it mutated and
\* the positions of the two generators after the call
ApplyActions ==
    /\ ~de_out.returned
    /\ de_in.call = "apply_actions"
    /\ LET Applied(c) == de_out' = [returned |-> TRUE,
                                    value |-> [person |-> c.p, np |-> c.np, py |-> c.py]]
       IN  Applied(apply_actions([p |-> de_in.person, np |-> rng.np, py |-> rng.py,
                                  applied |-> <<>>],
                                 de_in.base_world, de_in.country_model, de_in.city,
                                 de_in.personality, [list |-> de_in.actions],
                                 de_in.birth_profile))
    /\ UNCHANGED <<era_obj, cm, cw, de_in, era_year, runs, mode, rng>>

\* LifeEventDetector.check_events; the value is the person it mutated and
\* the events it returned
CheckEvents ==
    /\ ~de_out.returned
    /\ de_in.call = "check_events"
    /\ LET Checked(ev) == de_out' = [returned |-> TRUE, value |-> ev]
       IN  Checked(check_events(de_in.person, de_in.world, de_in.previous_state))
    /\ UNCHANGED <<era_obj, cm, cw, de_in, era_year, runs, mode, rng>>

CallNext ==
    \/ SelectActions
    \/ ParetoMultipliers
    \/ ConstructProfile
    \/ ApplyActions
    \/ CheckEvents

SpecCall == CallInit /\ [][CallNext]_vars

\* C12: with no candidate list, select_actions returns at most
\* max_actions_per_year actions, all admissible: Rest first if stress > 0.7
\* or health < 0.3; then at most one personality-dominant action
\* (conscientiousness > 0.7: Study if admissible and education < 0.8,
\* otherwise Work if admissible; else social drive > 0.7: Relation; else
\* risk preference > 0.7: Risk); then admissible actions not yet selected,
\* in enumeration order.
C12_AutoSelectPriority ==
    (de_out.returned /\ de_in.call = "select_actions" /\ de_in.user_choices = None) =>
        LET p == de_in.person
            q == de_in.personality
            admissible == get_available_actions(p, de_in.world, q)
            rest == IF p.stress > 7000 \/ p.health < 3000 THEN <<"REST">> ELSE <<>>
            wanted == IF q.conscientiousness > 7000
                      THEN IF In("STUDY", admissible) /\ p.education_level < 8000
                           THEN "STUDY" ELSE "WORK"
                      ELSE IF q.social_drive > 7000 THEN "RELATION"
                      ELSE IF q.risk_preference > 7000 THEN "RISK"
                      ELSE "none"
            first == IF In(wanted, admissible) THEN Append(rest, wanted) ELSE rest
            all == first \o SelectSeq(Actions, LAMBDA a : In(a, admissible) /\ ~In(a, first))
        IN  /\ de_out.value = SubSeq(all, 1, Min(max_actions_per_year, Len(all)))
            /\ Len(de_out.value) <= max_actions_per_year
            /\ \A k \in DOMAIN de_out.value : In(de_out.value[k], admissible)

\* a conscientious, stressed person with education 0.8: Rest, then Work
C12_Witness ==
    /\ de_out.returned
    /\ de_in.call = "select_actions"
    /\ de_in.user_choices = None
    /\ de_in.person.stress > 7000
    /\ de_in.personality.conscientiousness > 7000
    /\ de_in.person.education_level >= 8000
    /\ de_in.person.age = 25
    /\ de_in.person.energy > 3000
    /\ de_out.value = <<"REST", "WORK">>

\* C27: the list select_actions returns for a year names no action twice,
\* whether it was taken from the caller's candidates or chosen by
\* auto-selection.
C27_NoActionTwice ==
    (de_out.returned /\ de_in.call = "select_actions") =>
        \A k, j \in DOMAIN de_out.value : de_out.value[k] = de_out.value[j] => k = j

\* C13 as stated: for a person score >= 0.8 the wealth multiplier and the
\* opportunity multiplier a handler applies are exactly 4.0, and for a score
\* < 0.8 the elite branch is never taken.
C13_ExactlyFour ==
    (de_out.returned /\ de_in.call = "pareto") =>
        IF de_out.value.person_score >= 8000
        THEN de_out.value.wealth_mult = 40000 /\ de_out.value.opportunity_mult = 40000
        ELSE de_out.value.wealth_mult < 10000 /\ de_out.value.opportunity_mult = 2500

\* C13, amended: for a person score >= 0.8 the opportunity multiplier is
\* exactly 4.0 and the wealth multiplier is 4.0 * (1 + 0.5 * inequality); for
\* a score < 0.8 they are 0.25 and 0.25 * (1 - 0.3 * inequality).  Neither
\* score takes the other branch.
C13_EliteMultipliers ==
    (de_out.returned /\ de_in.call = "pareto") =>
        IF de_out.value.person_score >= 8000
        THEN /\ de_out.value.opportunity_mult = 40000
             /\ de_out.value.wealth_mult = 40000 + 2 * de_in.world.inequality
        ELSE /\ de_out.value.opportunity_mult = 2500
             /\ de_out.value.wealth_mult
                  = 2500 - (3 * de_in.world.inequality + 39) \div 40

\* a person whose score is exactly 0.8, in a world with inequality 0.5
C13_Witness ==
    /\ de_out.returned
    /\ de_in.call = "pareto"
    /\ de_out.value.person_score = 8000
    /\ de_in.world.inequality = 5000
    /\ de_out.value.wealth_mult = 50000

\* C14: constructing a BirthProfile or a Personality with a scalar outside
\* [0,1] fails: the constructor returns no object.
C14_ConstructionRejects ==
    (de_in.call \in {"BirthProfile", "Personality"}
       /\ \E k \in 1..5 : de_in.scalars[k] \notin 0..10000)
    => ~de_out.returned

\* C16: apply_actions on a list that holds a value that is none of the six
\* actions returns, and leaves the person and the two generators as the
\* call on the same list with that value removed leaves them.
C16_UnknownActionSkipped ==
    (de_out.returned /\ de_in.call = "apply_actions")
    => LET known == SelectSeq(de_in.actions, LAMBDA a : In(a, Actions))
           Same(c) == /\ de_out.value.person = c.p
                      /\ de_out.value.np = c.np
                      /\ de_out.value.py = c.py
       IN  Same(apply_actions([p |-> de_in.person, np |-> rng.np, py |-> rng.py,
                               applied |-> <<>>],
                              de_in.base_world, de_in.country_model, de_in.city,
                              de_in.personality, [list |-> known], de_in.birth_profile))

C16_Witness ==
    /\ de_out.returned
    /\ de_in.call = "apply_actions"
    /\ de_in.actions = <<"", "RISK", "MOVE">>
    /\ de_out.value.person # de_in.person
    /\ de_out.value.py # rng.py

\* C19: a wealth delta of an event is added with no clamp and no floor:
\* after check_events has detected a Health Crisis (and no other event that
\* touches wealth) the wealth is exactly 2000 lower than before the call,
\* also for a wealth below 2000 or negative.
C19_WealthDeltaUnclamped ==
    (/\ de_out.returned
     /\ de_in.call = "check_events"
     /\ \E k \in 1..Len(de_out.value.new_events) :
            de_out.value.new_events[k].title = "Health Crisis"
     /\ \A j \in 1..Len(de_out.value.new_events) :
            de_out.value.new_events[j].title # "Career Breakthrough")
    => de_out.value.person.wealth = de_in.person.wealth - 200000

\* C20: once window_missed is set, the mobility multiplier 0.3 is a factor
\* of the success chance that decides a Risk and a Move, in every city: the
\* chance the handler compares is 0.3 times the chance it would compare with
\* a multiplier of 1.0 (up to 0.002 of rounding).
C20_MobilityFactorDecides ==
    (/\ de_out.returned
     /\ de_in.call = "apply_actions"
     /\ de_in.actions \in {<<"RISK">>, <<"MOVE">>}
     /\ de_in.country_model # None
     /\ de_in.country_model.window_missed)
    => LET missed == de_in.country_model
           unscaled == [missed EXCEPT !.mobility_multiplier = 10000]
           c == [p |-> de_in.person, np |-> rng.np, py |-> rng.py, applied |-> <<>>]
           Factor(chance, chance_unscaled) ==
               /\ missed.mobility_multiplier = 3000
               /\ chance - Mul(chance_unscaled, 3000) \in -20..20
       IN  IF de_in.actions = <<"RISK">>
           THEN Factor(risk_success_chance(c, de_in.base_world, missed, de_in.city,
                                           de_in.birth_profile),
                       risk_success_chance(c, de_in.base_world, unscaled, de_in.city,
                                           de_in.birth_profile))
           ELSE Factor(move_success_chance(de_in.person, de_in.base_world, missed,
                                           de_in.city, de_in.birth_profile),
                       move_success_chance(de_in.person, de_in.base_world, unscaled,
                                           de_in.city, de_in.birth_profile))

\* C21: the success probability the Move handler compares its draw with is
\* at most 0.95, for every person score, country state and city.
C21_MoveChanceCapped ==
    (/\ de_out.returned
     /\ de_in.call = "apply_actions"
     /\ de_in.actions = <<"MOVE">>)
    => move_success_chance(de_in.person, de_in.base_world, de_in.country_model,
                           de_in.city, de_in.birth_profile) <= 9500

(***************************************************************************)
(* SpecReuse: one simulator constructed once and its simulate called       *)
(* twice, with the same arguments; the components created by __init__      *)
(* (the event detector among them) serve both calls                        *)
(***************************************************************************)
ReuseRuns ==
    {NewRun("v2", birth, personality, "beijing", MaxAge, TRUE, 42, None, FALSE) :
       birth \in BirthProfiles, personality \in Personalities}
    \cup
    {NewRun("v1", birth, personality, "none", MaxAge, TRUE, 42, None, FALSE) :
       birth \in BirthProfiles, personality \in Personalities}

InitReuse ==
    /\ Idle
    /\ mode = "reused"
    /\ \E r \in ReuseRuns : runs = <<r, r>>
    /\ rng \in UnseededRng

\* the second call of simulate: no __init__ runs, self.event_detector is the
\* detector of the call before with the events it holds
Resimulate(i) ==
    /\ Scheduled(i)
    /\ mode = "reused"
    /\ i > 1
    /\ \/ runs[i].pc = "new" /\ runs[i].kind = "v1"
       \/ runs[i].pc = "prepared"
    /\ StepRun(i, [run |-> [runs[i] EXCEPT !.pc = "constructed",
                                           !.detected_events = runs[i - 1].detected_events],
                   rng |-> rng])

NextReuse ==
    \/ \E i \in DOMAIN runs : Prepare(i)
    \/ \E i \in DOMAIN runs : Construct(i)
    \/ \E i \in DOMAIN runs : Resimulate(i)
    \/ \E i \in DOMAIN runs : Begin(i)
    \/ \E i \in DOMAIN runs : YearStep(i)
    \/ \E i \in DOMAIN runs : Finish(i)

SpecReuse == InitReuse /\ [][NextReuse]_vars

\* C25: the event list a simulate call returns holds the events detected
\* during that call and no others, in non-decreasing age order, also for the
\* second call on one simulator.
C25_OnlyThisCallsEvents ==
    \A i \in DOMAIN runs :
        runs[i].pc = "returned"
        => LET events == runs[i].result.events
               before == IF i > 1 THEN Len(runs[i - 1].detected_events) ELSE 0
               own == SubSeq(runs[i].detected_events, before + 1,
                             Len(runs[i].detected_events))
           IN  /\ events = EventDicts(own)
               /\ \A j, k \in 1..Len(events) : j < k => events[j].age <= events[k].age

(***************************************************************************)
(* Two runs of one configuration, one after the other in one process, each *)
(* made by constructing a fresh simulator with the seed and simulating     *)
(* once (main.py and the examples run their simulations this way)          *)
(***************************************************************************)
\* max_age of the runs of the two-run specifications
ShortAge == 3

SeqRuns ==
    {NewRun(kind, birth, personality, city, ShortAge, TRUE, seed, None, FALSE) :
       kind \in {"v2", "china_life", "china"}, birth \in BirthProfiles,
       personality \in Personalities, city \in {"beijing", "shenzhen"}, seed \in Seeds}
    \cup
    {NewRun("v1", birth, personality, "none", ShortAge, TRUE, seed, None, FALSE) :
       birth \in BirthProfiles, personality \in Personalities, seed \in Seeds}

InitSeq ==
    /\ Idle
    /\ mode = "sequential"
    /\ \E r \in SeqRuns : runs = <<r, r>>
    /\ rng \in UnseededRng

SpecSeq == InitSeq /\ [][Next]_vars

\* C4: two runs given identical inputs and seed, each made by constructing
\* a fresh simulator with the seed and simulating once, return identical
\* results (for simulate_china_life: family_state included).
C4_SameSeedSameResult ==
    (runs[1].pc = "returned" /\ runs[2].pc = "returned")
    => runs[1].result = runs[2].result

(***************************************************************************)
(* Runs with separate simulator, person and world objects in one process.  *)
(* The generator (utils/rng.py: the module-level `rng` over the random and *)
(* numpy.random modules) is the one of the process.  Each configuration    *)
(* first executes alone, from construction to return; then a second run of *)
(* each configuration is made, and the steps of these runs interleave.     *)
(* Run i + Len(runs) \div 2 is the interleaved run of configuration i.     *)
(***************************************************************************)
ParRuns ==
    {NewRun(kind, BirthProfile(1985, 5000, 5000, 5000, 8000, 5000),
            Personality(5000, 5000, 5000, 5000, 5000), "beijing", ShortAge, TRUE, seed,
            None, FALSE) : kind \in {"v2", "china"}, seed \in Seeds}
    \cup
    {NewRun("v1", BirthProfile(1985, 5000, 5000, 5000, 8000, 5000),
            Personality(5000, 5000, 5000, 5000, 5000), "none", ShortAge, TRUE, seed,
            None, FALSE) : seed \in Seeds}

InitPar ==
    /\ Idle
    /\ mode = "interleaved"
    /\ rng \in UnseededRng
    /\ \E r1 \in ParRuns, r2 \in ParRuns : runs = <<r1, r2, r1, r2>>

SpecPar == InitPar /\ [][Next]_vars

\* C5: under every interleaving of the per-year steps of two runs with
\* separate objects, each run returns the result it returns when executed
\* alone with its seed.
C5_InterleavedAsAlone ==
    \A i \in 1..(Len(runs) \div 2) :
        runs[i + Len(runs) \div 2].pc = "returned"
        => runs[i + Len(runs) \div 2].result = runs[i].result
====
